---- MODULE Spec2Model ----
(***************************************************************************)
(* Model of the bearer-token validator of payforward                       *)
(* (backend/internal/auth/keycloak.go): the key cache guarded by a         *)
(* sync.RWMutex, refreshPublicKeys run by the two background goroutines    *)
(* and on demand by getPublicKey, and ValidateToken.                       *)
(***************************************************************************)
EXTENDS Integers, Sequences, FiniteSets, TLC

\* ------------------------------------------------------------------ bounds
\* Largest value time.Now() takes (seconds).
MaxTime == 2

\* ----------------------------------------------------- validator instance
\* The arguments main passes to NewKeycloakAuth.
serverURL == "http://kc"
realm == "pf"
clientID == "payforward-app"

\* nil, an absent header field, an absent NumericDate, a nil *rsa.PublicKey.
None == "<nil>"
NoKid == "<no kid>"
NoTime == -1
NoKey == [N |-> -1, E |-> -1]

\* ---------------------------------------------------------- base64url
\* base64.RawURLEncoding: the URL alphabet, no padding.
B64Alphabet ==
  << "A","B","C","D","E","F","G","H","I","J","K","L","M","N","O","P",
     "Q","R","S","T","U","V","W","X","Y","Z","a","b","c","d","e","f",
     "g","h","i","j","k","l","m","n","o","p","q","r","s","t","u","v",
     "w","x","y","z","0","1","2","3","4","5","6","7","8","9","-","_" >>

B64Char(c) == \E i \in 1..Len(B64Alphabet) : B64Alphabet[i] = c

B64Val(c) == (CHOOSE i \in 1..Len(B64Alphabet) : B64Alphabet[i] = c) - 1

\* The decoder skips line feeds and carriage returns.
NotNewline(c) == c \notin {"\n", "\r"}
StripNewlines(s) == SelectSeq(s, NotNewline)

\* The six bits of character i of t, zero past its end.
Sextet(t, i) == IF i <= Len(t) THEN B64Val(t[i]) ELSE 0

\* Byte j of the decoded string: four characters give three bytes.
DecodedByte(t, j) ==
  LET g == 4 * ((j - 1) \div 3)
      r == (j - 1) % 3
  IN CASE r = 0 -> Sextet(t, g + 1) * 4 + Sextet(t, g + 2) \div 16
       [] r = 1 -> (Sextet(t, g + 2) % 16) * 16 + Sextet(t, g + 3) \div 4
       [] r = 2 -> (Sextet(t, g + 3) % 4) * 64 + Sextet(t, g + 4)

\* The decoder: the decoded bytes. s is the string as a sequence of
\* characters. A character outside the alphabet (padding included) or a
\* dangling single character is a CorruptInputError; the trailing bits
\* that do not fill a byte are dropped.
B64Decode(s) ==
  LET t == StripNewlines(s)
  IN IF (\E i \in 1..Len(t) : ~B64Char(t[i])) \/ Len(t) % 4 = 1
     THEN [err |-> TRUE, bytes |-> <<>>]
     ELSE [err |-> FALSE, bytes |-> [j \in 1..((6 * Len(t)) \div 8) |-> DecodedByte(t, j)]]

\* The strings the key sets below are written with, and what the decoder
\* makes of them, computed once.
ExpAQAB == <<"A","Q","A","B">>
ModA == <<"u","w">>
ModB == <<"x","Q">>
ModC == <<"z","w">>
ModBad == <<"u","=">>
B64Decoded == [s \in {ExpAQAB, ModA, ModB, ModC, ModBad} |-> B64Decode(s)]

\* base64.RawURLEncoding.DecodeString(s)
DecodeString(s) == IF s \in DOMAIN B64Decoded THEN B64Decoded[s] ELSE B64Decode(s)

\* The first n bytes of b read as one big-endian number.
RECURSIVE BytesVal(_, _)
BytesVal(b, n) == IF n = 0 THEN 0 ELSE 256 * BytesVal(b, n - 1) + b[n]

\* new(big.Int).SetBytes(b)
SetBytes(b) == BytesVal(b, Len(b))

\* int(x.Int64()) of the big.Int of the bytes b: its low 64 bits, read as a
\* signed number.
Int64(b) ==
  LET low == IF Len(b) > 8 THEN SubSeq(b, Len(b) - 7, Len(b)) ELSE b
  IN IF Len(low) = 8 /\ low[1] >= 128
     THEN 0 - (SetBytes([i \in 1..8 |-> 255 - low[i]]) + 1)
     ELSE SetBytes(low)

\* ------------------------------------------------------------------ JWKS
JWK(kid, kty, use, n, e) == [Kid |-> kid, Kty |-> kty, Use |-> use, N |-> n, E |-> e]

parseRSAPublicKey(jwk) ==
  LET n == DecodeString(jwk.N)
      e == DecodeString(jwk.E)
  IN IF n.err \/ e.err THEN [err |-> TRUE, key |-> NoKey]
     ELSE [err |-> FALSE, key |-> [N |-> SetBytes(n.bytes), E |-> Int64(e.bytes)]]

\* The body of the loop of refreshPublicKeys: the cache after one entry.
InstallKeyUnchecked(cache, key) ==
  LET p == parseRSAPublicKey(key) IN
  IF p.err THEN cache
  ELSE [k \in DOMAIN cache \cup {key.Kid} |->
          IF k = key.Kid THEN p.key ELSE cache[k]]

InstallKeyEvicting(cache, key) ==
  IF key.Kty = "RSA" /\ key.Use = "sig"
  THEN LET p == parseRSAPublicKey(key) IN
       IF p.err THEN cache
       ELSE [k \in {key.Kid} |-> p.key]
  ELSE cache

InstallKey(cache, key) ==
  IF key.Kty = "RSA" /\ key.Use = "sig"
  THEN LET p == parseRSAPublicKey(key) IN
       IF p.err THEN cache
       ELSE [k \in DOMAIN cache \cup {key.Kid} |->
               IF k = key.Kid THEN p.key ELSE cache[k]]
  ELSE cache

RECURSIVE InstallAll(_, _)
InstallAll(cache, keys) ==
  IF keys = <<>> THEN cache
  ELSE InstallAll(InstallKey(cache, Head(keys)), Tail(keys))

\* Key material the provider publishes.
KeyA == parseRSAPublicKey(JWK("k1", "RSA", "sig", ModA, ExpAQAB)).key
KeyB == parseRSAPublicKey(JWK("k2", "RSA", "sig", ModB, ExpAQAB)).key
KeyC == parseRSAPublicKey(JWK("k1", "RSA", "sig", ModC, ExpAQAB)).key

\* Key sets (the "keys" member of a response body): one key; two keys; a
\* set whose first two entries are not installed and whose third replaces
\* the key of k1.
KeySet1 == << JWK("k1", "RSA", "sig", ModA, ExpAQAB) >>
KeySet2 == << JWK("k1", "RSA", "sig", ModA, ExpAQAB), JWK("k2", "RSA", "sig", ModB, ExpAQAB) >>
KeySet3 == << JWK("k2", "RSA", "sig", ModBad, ExpAQAB), JWK("k2", "EC", "enc", ModB, ExpAQAB),
              JWK("k1", "RSA", "sig", ModC, ExpAQAB) >>

NotJSON == [json |-> FALSE, keys |-> << >>]
JSON(keys) == [json |-> TRUE, keys |-> keys]
Response(status, body) == [neterr |-> FALSE, status |-> status, body |-> body]

\* What http.Get can produce: a transport error, or a response with a
\* status and a body that is not JSON, or a JSON object with its "keys"
\* (none in the error object a failing provider sends).
Responses ==
  { [neterr |-> TRUE, status |-> 0, body |-> NotJSON],
    Response(200, NotJSON), Response(200, JSON(KeySet1)), Response(200, JSON(KeySet2)),
    Response(200, JSON(KeySet3)),
    Response(500, NotJSON), Response(500, JSON(<< >>)) }

\* The answers of the provider while every goroutine runs.
CoreResponses ==
  { [neterr |-> TRUE, status |-> 0, body |-> NotJSON],
    Response(200, NotJSON), Response(200, JSON(KeySet2)), Response(500, JSON(<< >>)) }

\* json.NewDecoder(resp.Body).Decode(&jwks)
DecodeJWKS(body) ==
  IF body.json THEN [err |-> FALSE, keys |-> body.keys]
  ELSE [err |-> TRUE, keys |-> <<>>]

\* The part of refreshPublicKeys before the lock: the error it returns, or
\* the decoded key set. The status of the response is not read.
FetchResult(resp) ==
  IF resp.neterr THEN [err |-> "failed to fetch JWKS", keys |-> <<>>]
  ELSE IF DecodeJWKS(resp.body).err THEN [err |-> "failed to decode JWKS", keys |-> <<>>]
  ELSE [err |-> None, keys |-> DecodeJWKS(resp.body).keys]

\* ---------------------------------------------------------------- tokens
\* A token: the header's alg and kid, the key pair that signed it (named by
\* its public key), and the claims.
Algs == {"RS256", "PS256", "HS256", "EdDSA", "none", "XX"}
Kids == {"k1", "k2"}

\* jwt.GetSigningMethod(alg), by the type of the method.
SigningMethod(alg) ==
  CASE alg \in {"RS256", "RS384", "RS512"} -> "SigningMethodRSA"
    [] alg \in {"PS256", "PS384", "PS512"} -> "SigningMethodRSAPSS"
    [] alg \in {"HS256", "HS384", "HS512"} -> "SigningMethodHMAC"
    [] alg \in {"ES256", "ES384", "ES512"} -> "SigningMethodECDSA"
    [] alg = "EdDSA" -> "SigningMethodEd25519"
    [] alg = "none" -> "signingMethodNone"
    [] OTHER -> None

expectedIssuer == serverURL \o "/realms/" \o realm

validateAudienceClientOnly(audience) ==
  \E i \in 1..Len(audience) : audience[i] = clientID

validateAudienceNonEmpty(audience) == Len(audience) > 0

validateAudience(audience) ==
  \E i \in 1..Len(audience) : audience[i] = clientID \/ audience[i] = "account"

\* What the parser makes of a string that is not three base64url segments.
MalformedToken ==
  [ alg |-> "<malformed>", kid |-> NoKid, signer |-> NoKey, exp |-> NoTime,
    nbf |-> NoTime, iss |-> "", aud |-> <<>>, sub |-> "", email |-> "" ]

\* The key function given to ParseWithClaims, up to the call of
\* getPublicKey: the error it returns, or None.
KeyfuncAnyMethod(t) ==
  IF t.kid = NoKid THEN "kid not found in token header" ELSE None

Keyfunc(t) ==
  IF SigningMethod(t.alg) # "SigningMethodRSA" THEN "unexpected signing method: " \o t.alg
  ELSE IF t.kid = NoKid THEN "kid not found in token header"
  ELSE None

\* ParseWithClaims before it calls the key function: the header names a
\* registered signing method.
ParseUnverified(t) ==
  IF t = MalformedToken THEN "token is malformed"
  ELSE IF SigningMethod(t.alg) = None THEN "signing method is unavailable" ELSE None

\* SigningMethodRSA.Verify: the signature was made by the private key of
\* the given public key.
Verify(t, key) == t.signer = key

\* The default jwt Validator on the registered claims, at time now: exp
\* and nbf are checked when present, with no leeway.
ValidateClaimsNoExp(t, now) ==
  IF t.nbf # NoTime /\ now < t.nbf THEN "token is not valid yet"
  ELSE None

ValidateClaims(t, now) ==
  IF t.exp # NoTime /\ ~(now < t.exp) THEN "token is expired"
  ELSE IF t.nbf # NoTime /\ now < t.nbf THEN "token is not valid yet"
  ELSE None

\* A (nil, error) return; at is the time.Now() the claims were checked at,
\* NoTime when ValidateToken returned before that.
Failure(e, now) == [ok |-> FALSE, err |-> e, sub |-> "", email |-> "", at |-> now]

\* ValidateToken once the key function has returned key: signature,
\* registered claims, issuer, audience.
CheckTokenAnyIssuer(t, key, now) ==
  IF ~Verify(t, key) THEN Failure("failed to parse token: signature", NoTime)
  ELSE IF ValidateClaims(t, now) # None
    THEN Failure("failed to parse token: " \o ValidateClaims(t, now), now)
  ELSE IF ~validateAudience(t.aud) THEN Failure("invalid audience", now)
  ELSE [ok |-> TRUE, err |-> None, sub |-> t.sub, email |-> t.email, at |-> now]

CheckToken(t, key, now) ==
  IF ~Verify(t, key) THEN Failure("failed to parse token: signature", NoTime)
  ELSE IF ValidateClaims(t, now) # None
    THEN Failure("failed to parse token: " \o ValidateClaims(t, now), now)
  ELSE IF t.iss # expectedIssuer THEN Failure("invalid issuer", now)
  ELSE IF ~validateAudience(t.aud) THEN Failure("invalid audience", now)
  ELSE [ok |-> TRUE, err |-> None, sub |-> t.sub, email |-> t.email, at |-> now]

TokenFields == {"alg", "kid", "signer", "exp", "nbf", "iss", "aud", "sub", "email"}

AllTokens ==
  [ alg : Algs, kid : Kids \cup {NoKid}, signer : {KeyA, KeyB, KeyC, NoKey},
    exp : {NoTime, 1, 2}, nbf : {NoTime, 1},
    iss : {expectedIssuer, expectedIssuer \o "/", "http://KC/realms/pf", ""},
    aud : { <<>>, <<clientID>>, <<"account">>, <<"other-app">>,
            <<"other-app", "account">>, <<"Account">> },
    sub : {"user-1", "user-2"}, email : {"a@example.org", ""} ]

\* Two well-formed tokens, one per published signing key.
GoodTokens ==
  { [ alg |-> "RS256", kid |-> "k1", signer |-> KeyA, exp |-> 2, nbf |-> NoTime,
      iss |-> expectedIssuer, aud |-> <<clientID>>, sub |-> "user-1",
      email |-> "a@example.org" ],
    [ alg |-> "RS256", kid |-> "k2", signer |-> KeyB, exp |-> NoTime, nbf |-> 1,
      iss |-> expectedIssuer, aud |-> <<"other-app", "account">>, sub |-> "user-2",
      email |-> "" ] }

\* The tokens presented: the well-formed ones and every token that differs
\* from one of them in a single field.
Tokens ==
  { t \in AllTokens : \E g \in GoodTokens : \E f \in TokenFields :
      \A h \in TokenFields \ {f} : t[h] = g[h] }

\* The tokens presented while every goroutine runs: the well-formed ones,
\* and those with another algorithm in the header.
CoreTokens ==
  { t \in Tokens : \E g \in GoodTokens : \A h \in TokenFields \ {"alg"} : t[h] = g[h] }

\* ------------------------------------------------------------ HTTP layer
\* The compact serialisation of a token, and the token a string parses to.
Compact(t) == ToString(t)

Serialised == { <<Compact(t), t>> : t \in Tokens }

ParseJWT(s) ==
  IF \E p \in Serialised : p[1] = s
  THEN (CHOOSE p \in Serialised : p[1] = s)[2]
  ELSE MalformedToken

\* A header value is a sequence of pieces: the space, or a run of
\* characters other than the space. strings.Split(s, " "):
Space == " "

RECURSIVE SplitFrom(_, _, _)
SplitFrom(s, parts, part) ==
  IF s = <<>> THEN Append(parts, part)
  ELSE IF Head(s) = Space THEN SplitFrom(Tail(s), Append(parts, part), "")
  ELSE SplitFrom(Tail(s), parts, part \o Head(s))

Split(s) == SplitFrom(s, <<>>, "")

\* r.Header.Get(key): the first value of the header, "" when there is none.
Get(values) == IF values = <<>> THEN <<>> ELSE Head(values)

\* ExtractBearerToken(r): r.Authorization is the list of the values of the
\* Authorization headers of the request.
ExtractBearerToken(r) ==
  LET authHeader == Get(r.Authorization)
      parts == Split(authHeader)
  IN IF authHeader = <<>>
     THEN [token |-> "", err |-> "authorization header not found"]
     ELSE IF Len(parts) # 2 \/ parts[1] # "Bearer"
     THEN [token |-> "", err |-> "invalid authorization header format"]
     ELSE [token |-> parts[2], err |-> None]

\* The role claims of a token: realm_access.roles, and resource_access, a
\* map from client identifiers to role lists.
Has(roles, role) == \E i \in 1..Len(roles) : roles[i] = role

HasRoleAnyClient(claims, role) ==
  \/ Has(claims.RealmAccess.Roles, role)
  \/ \E c \in DOMAIN claims.ResourceAccess : Has(claims.ResourceAccess[c].Roles, role)

HasRole(claims, role) ==
  \/ Has(claims.RealmAccess.Roles, role)
  \/ /\ clientID \in DOMAIN claims.ResourceAccess
     /\ Has(claims.ResourceAccess[clientID].Roles, role)

\* respondJSONError(w, status, message): the response written.
NoResponse == [status |-> 0, contentType |-> "", body |-> [success |-> TRUE, error |-> ""]]

respondJSONError(st, message) ==
  [status |-> st, contentType |-> "application/json",
   body |-> [success |-> FALSE, error |-> message]]

\* The value of the context under "keycloak_claims".
NoAccess == [RealmAccess |-> [Roles |-> <<>>], ResourceAccess |-> << >>]
NoClaims == [set |-> FALSE, Subject |-> "", Email |-> "", access |-> NoAccess]

\* Authenticate after ExtractBearerToken returned e: the response it
\* writes, or the call of ValidateToken.
AfterExtract(e) ==
  IF e.err # None
  THEN [validate |-> FALSE,
        resp |-> respondJSONError(401, "Missing or invalid authorization header")]
  ELSE [validate |-> TRUE, resp |-> NoResponse]

\* Authenticate after ValidateToken returned res for a token with the role
\* claims access: the log line and the response it writes, or the claims
\* it puts in the context of the request it passes on.
AfterValidateFailOpen(res, access) ==
  [next |-> TRUE, log |-> "", resp |-> NoResponse,
   claims |-> [set |-> TRUE, Subject |-> res.sub, Email |-> res.email, access |-> access]]

AfterValidateDetailed(res, access) ==
  IF ~res.ok
  THEN [next |-> FALSE, log |-> "Token validation failed: " \o res.err,
        resp |-> respondJSONError(401, res.err), claims |-> NoClaims]
  ELSE [next |-> TRUE, log |-> "", resp |-> NoResponse,
        claims |-> [set |-> TRUE, Subject |-> res.sub, Email |-> res.email,
                    access |-> access]]

AfterValidate(res, access) ==
  IF ~res.ok
  THEN [next |-> FALSE, log |-> "Token validation failed: " \o res.err,
        resp |-> respondJSONError(401, "Invalid or expired token"), claims |-> NoClaims]
  ELSE [next |-> TRUE, log |-> "", resp |-> NoResponse,
        claims |-> [set |-> TRUE, Subject |-> res.sub, Email |-> res.email,
                    access |-> access]]

\* OptionalAuth: the token it gives to ValidateToken, if the request has a
\* well-formed Authorization header.
OptionalAuthToken(r) ==
  LET authHeader == Get(r.Authorization)
      parts == Split(authHeader)
  IN IF authHeader = <<>> THEN [validate |-> FALSE, token |-> ""]
     ELSE IF Len(parts) # 2 \/ parts[1] # "Bearer" THEN [validate |-> FALSE, token |-> ""]
     ELSE [validate |-> TRUE, token |-> parts[2]]

\* OptionalAuth after ValidateToken returned res: the request is passed on,
\* with the claims in its context when the token is valid.
AfterValidateOptional(res, access) ==
  [next |-> TRUE, log |-> "", resp |-> NoResponse,
   claims |-> IF res.ok
              THEN [set |-> TRUE, Subject |-> res.sub, Email |-> res.email,
                    access |-> access]
              ELSE NoClaims]

\* RequireRole(role) and RequireAnyRole(roles...) on a request whose
\* context holds claims: the response written, or the request passed on.
RequireRoleForbids(role, claims) ==
  IF ~claims.set \/ ~HasRole(claims.access, role)
  THEN [next |-> FALSE, resp |-> respondJSONError(403, "Insufficient permissions")]
  ELSE [next |-> TRUE, resp |-> NoResponse]

RequireRole(role, claims) ==
  IF ~claims.set
  THEN [next |-> FALSE, resp |-> respondJSONError(401, "Authentication required")]
  ELSE IF ~HasRole(claims.access, role)
  THEN [next |-> FALSE, resp |-> respondJSONError(403, "Insufficient permissions")]
  ELSE [next |-> TRUE, resp |-> NoResponse]

RequireAnyRole(roles, claims) ==
  IF ~claims.set
  THEN [next |-> FALSE, resp |-> respondJSONError(401, "Authentication required")]
  ELSE IF ~(\E i \in 1..Len(roles) : HasRole(claims.access, roles[i]))
  THEN [next |-> FALSE, resp |-> respondJSONError(403, "Insufficient permissions")]
  ELSE [next |-> TRUE, resp |-> NoResponse]

\* The middleware of a route after Authenticate, if any.
Guard(route, claims) ==
  CASE route.guard = "RequireRole" -> RequireRole(route.roles[1], claims)
    [] route.guard = "RequireAnyRole" -> RequireAnyRole(route.roles, claims)
    [] OTHER -> [next |-> TRUE, resp |-> NoResponse]


\* ------------------------------------------------------------- processes
\* The goroutine NewKeycloakAuth starts for the first refresh, the ticker
\* goroutine, and the request goroutines that call ValidateToken.
Validators == {"v1", "v2"}
Procs == {"init", "ticker"} \cup Validators

NoToken == [ alg |-> "", kid |-> NoKid, signer |-> NoKey, exp |-> NoTime, nbf |-> NoTime,
             iss |-> "", aud |-> <<>>, sub |-> "", email |-> "" ]
NoResult == [ok |-> FALSE, err |-> "<running>", sub |-> "", email |-> "", at |-> NoTime]
NoReturn == [status |-> 0, err |-> "<running>", kids |-> {}]

\* ------------------------------------------------ middleware.go, handlers
\* A handler is the sequence of the events serving one request makes. A
\* middleware that writes before and after it calls next:
Wrap(m, next) == << "before " \o m >> \o next \o << "after " \o m >>

\* Chain(h, middlewares...): the loop from the last middleware to the first.
RECURSIVE ChainFirstInnermost(_, _)
ChainFirstInnermost(h, middlewares) ==
  IF middlewares = <<>> THEN h
  ELSE ChainFirstInnermost(Wrap(Head(middlewares), h), Tail(middlewares))

RECURSIVE ChainFrom(_, _, _)
ChainFrom(h, middlewares, i) ==
  IF i < 1 THEN h
  ELSE ChainFrom(Wrap(middlewares[i], h), middlewares, i - 1)

Chain(h, middlewares) == ChainFrom(h, middlewares, Len(middlewares))

\* CORS(allowedOrigins) on a request with the given Origin header ("" when
\* there is none) and method: the headers it sets, the status it writes and
\* whether it calls next.
SetHeader(headers, name, value) ==
  [k \in DOMAIN headers \cup {name} |-> IF k = name THEN value ELSE headers[k]]

OriginAllowed(allowedOrigins, origin) ==
  \E i \in 1..Len(allowedOrigins) : allowedOrigins[i] = "*" \/ allowedOrigins[i] = origin

CORSHeaders(headers) ==
  SetHeader(SetHeader(SetHeader(SetHeader(headers,
    "Access-Control-Allow-Methods", "GET, POST, PUT, DELETE, OPTIONS, PATCH"),
    "Access-Control-Allow-Headers",
      "Accept, Authorization, Content-Type, X-CSRF-Token, X-Requested-With"),
    "Access-Control-Allow-Credentials", "true"),
    "Access-Control-Max-Age", "86400")

CORSReflectsAny(allowedOrigins, origin, method) ==
  [ headers |-> CORSHeaders(SetHeader(<< >>, "Access-Control-Allow-Origin", origin)),
    status |-> IF method = "OPTIONS" THEN 200 ELSE 0,
    next |-> method # "OPTIONS" ]

CORS(allowedOrigins, origin, method) ==
  [ headers |-> CORSHeaders(IF OriginAllowed(allowedOrigins, origin)
                            THEN SetHeader(<< >>, "Access-Control-Allow-Origin", origin)
                            ELSE << >>),
    status |-> IF method = "OPTIONS" THEN 200 ELSE 0,
    next |-> method # "OPTIONS" ]

\* strconv.Atoi on a string given as the sequence of its characters: an
\* optional sign, then decimal digits; a value out of the range of int is
\* an error.
Digits == <<"0", "1", "2", "3", "4", "5", "6", "7", "8", "9">>
IsDigit(c) == \E d \in 1..10 : Digits[d] = c
DigitVal(c) == (CHOOSE d \in 1..10 : Digits[d] = c) - 1

RECURSIVE DropZeros(_)
DropZeros(s) == IF s # <<>> /\ Head(s) = "0" THEN DropZeros(Tail(s)) ELSE s

RECURSIVE DecimalVal(_, _)
DecimalVal(s, acc) ==
  IF s = <<>> THEN acc ELSE DecimalVal(Tail(s), 10 * acc + DigitVal(Head(s)))

\* The decimal digits of the largest int64, 1<<63 - 1, and of the magnitude
\* of the smallest, 1<<63.
MaxInt64 ==
  << "9", "2", "2", "3", "3", "7", "2", "0", "3", "6", "8", "5", "4", "7", "7", "5",
     "8", "0", "7" >>
MinInt64 == [MaxInt64 EXCEPT ![Len(MaxInt64)] = "8"]

\* a > b for two digit strings of one length
RECURSIVE DigitsGreater(_, _)
DigitsGreater(a, b) ==
  IF a = <<>> THEN FALSE
  ELSE IF Head(a) # Head(b) THEN DigitVal(Head(a)) > DigitVal(Head(b))
  ELSE DigitsGreater(Tail(a), Tail(b))

\* ErrRange of ParseInt: the magnitude d (without leading zeros) does not
\* fit the int64 of its sign.
OutOfRange(neg, d) ==
  \/ Len(d) > Len(MaxInt64)
  \/ Len(d) = Len(MaxInt64) /\ DigitsGreater(d, IF neg THEN MinInt64 ELSE MaxInt64)

Atoi(s) ==
  LET signed == s # <<>> /\ Head(s) \in {"+", "-"}
      digits == IF signed THEN Tail(s) ELSE s
  IN IF digits = <<>> \/ \E i \in 1..Len(digits) : ~IsDigit(digits[i])
     THEN [err |-> TRUE, val |-> 0]
     ELSE IF OutOfRange(signed /\ Head(s) = "-", DropZeros(digits))
     THEN [err |-> TRUE, val |-> 0]
     ELSE [err |-> FALSE,
           val |-> IF signed /\ Head(s) = "-" THEN 0 - DecimalVal(DropZeros(digits), 0)
                   ELSE DecimalVal(DropZeros(digits), 0)]

\* models.DefaultPagination()
DefaultPagination == [Page |-> 1, PerPage |-> 20, SortBy |-> "createdAt", Order |-> "desc"]

\* getPaginationParams(r): query holds the values of page and per_page
\* (character sequences, empty when missing), sort_by and order.
getPaginationParamsNoCap(query) ==
  LET p == Atoi(query.page)
      pp == Atoi(query.per_page)
  IN [ Page |-> IF query.page # <<>> /\ ~p.err /\ p.val > 0
                THEN p.val ELSE DefaultPagination.Page,
       PerPage |-> IF query.per_page # <<>> /\ ~pp.err /\ pp.val > 0
                   THEN pp.val ELSE DefaultPagination.PerPage,
       SortBy |-> IF query.sort_by # "" THEN query.sort_by ELSE DefaultPagination.SortBy,
       Order |-> IF query.order = "asc" \/ query.order = "desc"
                 THEN query.order ELSE DefaultPagination.Order ]

getPaginationParams(query) ==
  LET p == Atoi(query.page)
      pp == Atoi(query.per_page)
  IN [ Page |-> IF query.page # <<>> /\ ~p.err /\ p.val > 0
                THEN p.val ELSE DefaultPagination.Page,
       PerPage |-> IF query.per_page # <<>> /\ ~pp.err /\ pp.val > 0 /\ pp.val <= 100
                   THEN pp.val ELSE DefaultPagination.PerPage,
       SortBy |-> IF query.sort_by # "" THEN query.sort_by ELSE DefaultPagination.SortBy,
       Order |-> IF query.order = "asc" \/ query.order = "desc"
                 THEN query.order ELSE DefaultPagination.Order ]

\* GenerateToken(secret, userID, email, duration) at time.Now() = at: an
\* HS256 token, named by the secret that signed it.
GenerateToken(secret, userID, email, duration, at) ==
  [ alg |-> "HS256", signer |-> secret, exp |-> at + duration, nbf |-> at,
    UserID |-> userID, Email |-> email ]

MalformedJWT ==
  [ alg |-> "<malformed>", signer |-> "", exp |-> NoTime, nbf |-> NoTime,
    UserID |-> "", Email |-> "" ]

\* The tokens presented to JWTAuth: generated ones, and generated ones
\* with another algorithm in the header.
Secrets == {"s1", "s2"}

Users == { <<"user-1", "a@example.org">>, <<"user-2", "b@example.org">> }

GeneratedTokens ==
  { GenerateToken(s, u[1], u[2], d, at) :
      s \in Secrets, u \in Users, d \in {0, 1, 2}, at \in {0, 1} }

HMACTokens ==
  GeneratedTokens \cup
  { [GenerateToken("s1", "user-1", "a@example.org", 2, 0) EXCEPT !.alg = a] :
      a \in {"HS384", "RS256", "PS256", "EdDSA", "none", "XX"} }

SerialisedHMAC == { <<Compact(t), t>> : t \in HMACTokens }

ParseHMAC(s) ==
  IF \E p \in SerialisedHMAC : p[1] = s
  THEN (CHOOSE p \in SerialisedHMAC : p[1] = s)[2]
  ELSE MalformedJWT

\* jwt.ParseWithClaims with the key function of JWTAuth, at time now: the
\* error, or None.
JWTErrorIgnoresExpiry(secret, t, now) ==
  IF t = MalformedJWT THEN "token is malformed"
  ELSE IF SigningMethod(t.alg) = None THEN "signing method is unavailable"
  ELSE IF SigningMethod(t.alg) # "SigningMethodHMAC" THEN "unexpected signing method: " \o t.alg
  ELSE IF t.signer # secret THEN "signature is invalid"
  ELSE ValidateClaimsNoExp(t, now)

JWTError(secret, t, now) ==
  IF t = MalformedJWT THEN "token is malformed"
  ELSE IF SigningMethod(t.alg) = None THEN "signing method is unavailable"
  ELSE IF SigningMethod(t.alg) # "SigningMethodHMAC" THEN "unexpected signing method: " \o t.alg
  ELSE IF t.signer # secret THEN "signature is invalid"
  ELSE ValidateClaims(t, now)

\* http.Error(w, message, http.StatusUnauthorized)
Unauthorized(message) ==
  [ status |-> 401, contentType |-> "text/plain; charset=utf-8", body |-> message,
    next |-> FALSE, UserID |-> "", Email |-> "" ]

\* JWTAuth(secret) on request r at time now: the response, or the call of
\* next with the user id and the email in the context.
JWTAuth(secret, r, now) ==
  LET authHeader == Get(r.Authorization)
      parts == Split(authHeader)
      t == ParseHMAC(parts[2])
  IN IF authHeader = <<>> THEN Unauthorized("Authorization header required")
     ELSE IF Len(parts) # 2 \/ parts[1] # "Bearer"
     THEN Unauthorized("Invalid authorization format")
     ELSE IF JWTError(secret, t, now) # None THEN Unauthorized("Invalid token")
     ELSE [ status |-> 0, contentType |-> "", body |-> "", next |-> TRUE,
            UserID |-> t.UserID, Email |-> t.Email ]

\* ---- requests
\* The role claims tokens carry and the roles routes ask for.
RoleNames == {"admin", "editor", "user"}

RealmRoles == { <<>>, <<"admin">>, <<"user", "admin">> }

ClientRoles ==
  { << >>,
    clientID :> [Roles |-> <<"editor">>],
    "other-app" :> [Roles |-> <<"admin">>],
    (clientID :> [Roles |-> <<"user">>]) @@ ("other-app" :> [Roles |-> <<"editor", "admin">>]) }

Accesses ==
  { [RealmAccess |-> [Roles |-> r], ResourceAccess |-> c] : r \in RealmRoles, c \in ClientRoles }

CoreAccesses ==
  { a \in Accesses : a.RealmAccess.Roles \in { <<>>, <<"admin">> }
                     /\ "other-app" \in DOMAIN a.ResourceAccess }

\* A route: Authenticate or not, then RequireRole, RequireAnyRole or
\* nothing, then the handler.
\* A route: whether Authenticate or OptionalAuth is before it, and the role
\* middleware after that.
PlainRoute == [auth |-> TRUE, optional |-> FALSE, guard |-> "none", roles |-> <<>>]

Routes ==
  { PlainRoute } \cup
  [ auth : BOOLEAN, optional : {FALSE}, guard : {"RequireRole"},
    roles : { <<"admin">>, <<"editor">> } ] \cup
  [ auth : BOOLEAN, optional : {FALSE}, guard : {"RequireAnyRole"},
    roles : { <<>>, <<"user", "editor">> } ]

OptionalRoutes ==
  { [auth |-> FALSE, optional |-> TRUE, guard |-> "none", roles |-> <<>>],
    [auth |-> FALSE, optional |-> TRUE, guard |-> "RequireRole", roles |-> <<"admin">>] }

\* The values of the Authorization headers of a request.
GoodJWT == Compact(CHOOSE t \in GoodTokens : t.kid = "k1")
Bearer(s) == << <<"Bearer", Space, s>> >>

OddHeaders ==
  { <<>>,
    << <<"Bearer">> >>,
    << <<"Bearer", Space>> >>,
    << <<"Bearer", GoodJWT>> >>,
    << <<"Bearer", Space, Space, GoodJWT>> >>,
    << <<"Bearer", Space, GoodJWT, Space>> >>,
    << <<"Bearer", Space, GoodJWT, Space, "x">> >>,
    << <<Space, "Bearer", Space, GoodJWT>> >>,
    << <<"bearer", Space, GoodJWT>> >>,
    << <<"BEARER", Space, GoodJWT>> >>,
    << <<"Basic", Space, GoodJWT>> >>,
    << <<GoodJWT>> >>,
    << <<"Bearer", Space, "abc">> >>,
    << <<"Bearer", Space, "a", "bc">> >>,
    << <<"Bearer", Space, GoodJWT>>, <<"Bearer", Space, "abc">> >>,
    << <<"Bearer", Space, GoodJWT>>, <<"Bearer", Space, GoodJWT>> >>,
    << <<"Bearer", Space, GoodJWT>>, <<"Basic", Space, "abc">> >>,
    << <<"Basic", Space, "abc">>, <<"Bearer", Space, GoodJWT>> >>,
    << <<>>, <<"Bearer", Space, GoodJWT>> >> }

Headers == OddHeaders \cup { Bearer(Compact(t)) : t \in GoodTokens }

\* The requests served: every token on the plain route, every other header
\* on the plain route, a well-formed token with every role claim on every
\* route, and every route without a header.
Requests ==
  { [Authorization |-> Bearer(Compact(t)), access |-> NoAccess, route |-> PlainRoute] :
      t \in Tokens } \cup
  { [Authorization |-> h, access |-> NoAccess, route |-> PlainRoute] : h \in OddHeaders } \cup
  { [Authorization |-> Bearer(GoodJWT), access |-> a, route |-> rt] :
      a \in CoreAccesses, rt \in Routes } \cup
  { [Authorization |-> <<>>, access |-> NoAccess, route |-> rt] : rt \in Routes }

\* The requests served through OptionalAuth: without a header, with
\* another scheme, and with tokens ValidateToken accepts or rejects.
OptionalRequests ==
  { [Authorization |-> h, access |-> NoAccess, route |-> rt] :
      h \in { <<>>, << <<"Basic", Space, "abc">> >>, << <<"Bearer", Space, "abc">> >> } \cup
             { Bearer(Compact(t)) : t \in CoreTokens },
      rt \in OptionalRoutes } \cup
  { [Authorization |-> Bearer(GoodJWT), access |-> a, route |-> rt] :
      a \in CoreAccesses, rt \in OptionalRoutes }

NoRequest ==
  [ stage |-> "none",
    req |-> [Authorization |-> <<>>, access |-> NoAccess, route |-> PlainRoute],
    token |-> "", calls |-> <<>>, claims |-> NoClaims, resp |-> NoResponse, log |-> "" ]

\* The calls of the functions without side effects.
NoExtract == [token |-> "", err |-> "<running>"]

NoQuery == [page |-> <<>>, per_page |-> <<>>, sort_by |-> "", order |-> ""]
NoCORS == [headers |-> << >>, status |-> 0, next |-> FALSE]
NoAuth ==
  [ status |-> 0, contentType |-> "", body |-> "<running>", next |-> FALSE,
    UserID |-> "", Email |-> "" ]

NoCall ==
  [ fn |-> "", claims |-> NoAccess, role |-> "", r |-> [Authorization |-> <<>>],
    returned |-> FALSE, has |-> FALSE, extracted |-> NoExtract,
    h |-> <<>>, middlewares |-> <<>>, chained |-> <<>>,
    allowedOrigins |-> <<>>, origin |-> "", method |-> "", cors |-> NoCORS,
    query |-> NoQuery, params |-> DefaultPagination,
    secret |-> "", now |-> 0, auth |-> NoAuth,
    jwk |-> JWK("", "", "", <<>>, <<>>), parsed |-> [err |-> FALSE, key |-> NoKey] ]

\* The arguments of Chain: up to three of three middlewares.
MiddlewareNames == {"m1", "m2", "m3"}
MaxChain == 3
MiddlewareLists == UNION { [1..n -> MiddlewareNames] : n \in 0..MaxChain }

\* The arguments of CORS.
AllowLists ==
  { <<>>, <<"*">>, <<"https://a.example">>, <<"https://a.example", "https://b.example">>,
    <<"https://b.example", "*">>, <<"">> }
Origins ==
  { "", "https://a.example", "https://b.example", "https://evil.example",
    "https://a.example.evil.example", "https://A.example", "*" }

\* The values of page and per_page: the characters, whether they are a
\* decimal integer in the range of int, and its value.
Numeral(s, ok, val) == [s |-> s, ok |-> ok, val |-> val]

Numerals ==
  { Numeral(<<>>, FALSE, 0), Numeral(<<"0">>, TRUE, 0), Numeral(<<"1">>, TRUE, 1),
    Numeral(<<"7">>, TRUE, 7), Numeral(<<"2", "0">>, TRUE, 20),
    Numeral(<<"1", "0", "0">>, TRUE, 100), Numeral(<<"1", "0", "1">>, TRUE, 101),
    Numeral(<<"-", "3">>, TRUE, 0 - 3), Numeral(<<"+", "2">>, TRUE, 2),
    Numeral(<<"0", "0", "7">>, TRUE, 7), Numeral(<<"a", "b", "c">>, FALSE, 0),
    Numeral(<<"1", "x">>, FALSE, 0), Numeral(<<"1", ".", "5">>, FALSE, 0),
    Numeral(<<" ", "1">>, FALSE, 0), Numeral(<<"-">>, FALSE, 0),
    Numeral([MaxInt64 EXCEPT ![Len(MaxInt64)] = "8"], FALSE, 0),
    Numeral([i \in 1..(Len(MaxInt64) + 1) |-> "9"], FALSE, 0) }

Queries ==
  { [page |-> p.s, per_page |-> pp.s, sort_by |-> sb, order |-> o] :
      p \in Numerals, pp \in Numerals, sb \in {"", "title"},
      o \in {"", "asc", "desc", "ASC", "up"} }

\* The keys given to parseRSAPublicKey: moduli with line breaks, with
\* padding and with a dangling character, and an exponent of 65 bits.
Moduli ==
  { ModA, ModB, ModBad, <<"u", "\n", "w">>, <<"\r", "\n", "x", "Q", "\n">>, <<"u">>,
    <<"u", "w", "A">> }
Exponents ==
  { ExpAQAB, <<"A", "Q", "\n", "A", "B">>, <<"A", "Q">>, <<"A", "Q", "A", "B", "=">>,
    <<"A", "Q", "A", "A", "A", "A", "A", "A", "A", "A", "A", "A">>,
    <<"A", "Q", "A", "A", "A", "A", "A", "A", "A", "A", "A", "D">> }

\* The requests given to JWTAuth.
JWTHeaders == OddHeaders \cup { Bearer(Compact(t)) : t \in HMACTokens }

Calls ==
  { [NoCall EXCEPT !.fn = "HasRole", !.claims = a, !.role = ro] :
      a \in Accesses, ro \in RoleNames } \cup
  { [NoCall EXCEPT !.fn = "ExtractBearerToken", !.r = [Authorization |-> h]] :
      h \in Headers } \cup
  { [NoCall EXCEPT !.fn = "Chain", !.h = <<"handler">>, !.middlewares = ms] :
      ms \in MiddlewareLists } \cup
  { [NoCall EXCEPT !.fn = "CORS", !.allowedOrigins = al, !.origin = o, !.method = m] :
      al \in AllowLists, o \in Origins, m \in {"GET", "POST", "OPTIONS"} } \cup
  { [NoCall EXCEPT !.fn = "getPaginationParams", !.query = q] : q \in Queries } \cup
  { [NoCall EXCEPT !.fn = "JWTAuth", !.secret = "s1", !.r = [Authorization |-> h],
                   !.now = n] :
      h \in JWTHeaders, n \in 0..MaxTime } \cup
  { [NoCall EXCEPT !.fn = "parseRSAPublicKey", !.jwk = JWK("k1", "RSA", "sig", n, e)] :
      n \in Moduli, e \in Exponents }

\* ------------------------------------------------------- the server stack
\* main: Chain(mux, Logger, CORS, RateLimit, Recovery, SecurityHeaders,
\* RequestID)
StackLimitBeforeCORS ==
  <<"Logger", "RateLimit", "CORS", "Recovery", "SecurityHeaders", "RequestID">>

Stack == <<"Logger", "CORS", "RateLimit", "Recovery", "SecurityHeaders", "RequestID">>

\* The parts of the handler main builds, in the order a request that
\* nothing stops runs them.
Pipeline == Chain(<<"router">>, Stack)

IndexOf(part) == CHOOSE i \in 1..Len(Pipeline) : Pipeline[i] = part

\* config.AllowedOrigins and config.RateLimitPerMin
AllowedOrigins == <<"*">>
Limit == 1

\* rl.window, the Sleep of the cleanup goroutine and the age at which
\* cleanup deletes a visitor, in minutes.
Window == 1
CleanupSleep == 5
CleanupAge == 10

\* The instants the clock is read at, in minutes after the start: within
\* the first window, at its end, past it, when the first Sleep of the
\* cleanup goroutine ends, and past the age at which cleanup deletes.
Instants == <<0, 1, 2, 5, 11, 12>>

\* strings.Split(s, ","), s given as the sequence of its pieces.
RECURSIVE SplitCommaFrom(_, _, _)
SplitCommaFrom(s, parts, part) ==
  IF s = <<>> THEN Append(parts, part)
  ELSE IF Head(s) = "," THEN SplitCommaFrom(Tail(s), Append(parts, part), "")
  ELSE SplitCommaFrom(Tail(s), parts, part \o Head(s))

SplitComma(s) == SplitCommaFrom(s, <<>>, "")

\* r.RemoteAddr of a connection from ip, port
RemoteAddr(r) == r.ip \o ":" \o r.port

\* RateLimit: the key the request is counted under.
ClientKey(r) ==
  IF r.forwarded # <<>> THEN SplitComma(r.forwarded)[1] ELSE RemoteAddr(r)

\* The requests the server receives.
\* origin and requestID are the headers Origin and X-Request-ID ("" when
\* the request has none); panics: the route handler panics before it
\* writes.
Inbound ==
  { [ip |-> "10.0.0.1", port |-> "1111", forwarded |-> <<>>, method |-> "GET",
     origin |-> "https://a.example", requestID |-> "", panics |-> FALSE],
    [ip |-> "10.0.0.1", port |-> "2222", forwarded |-> <<>>, method |-> "GET",
     origin |-> "", requestID |-> "existing-request-id", panics |-> FALSE],
    [ip |-> "10.0.0.1", port |-> "1111", forwarded |-> <<"x", ",", " y">>,
     method |-> "POST", origin |-> "https://a.example", requestID |-> "",
     panics |-> TRUE],
    [ip |-> "10.0.0.1", port |-> "1111", forwarded |-> <<>>, method |-> "OPTIONS",
     origin |-> "https://a.example", requestID |-> "", panics |-> FALSE],
    [ip |-> "10.0.0.2", port |-> "1111", forwarded |-> <<>>, method |-> "GET",
     origin |-> "", requestID |-> "", panics |-> FALSE] }

IPs == { r.ip : r \in Inbound }
ClientKeys == { ClientKey(r) : r \in Inbound }

\* The connections the server accepts, each served by a goroutine of its
\* own and carrying one request.
Conns == {"c1", "c2", "c3"}

NoInbound ==
  [ ip |-> "", port |-> "", forwarded |-> <<>>, method |-> "", origin |-> "",
    requestID |-> "", panics |-> FALSE ]

\* A request goroutine: where it is, the request, the visitor getVisitor
\* returned (0: none), the parts of the pipeline run, the response, the
\* request id of the context, whether allow took a token.
Idle ==
  [ pc |-> "idle", r |-> NoInbound, at |-> 0, v |-> 0, trace |-> <<>>,
    headers |-> << >>, status |-> 0, body |-> "", requestID |-> "",
    consumed |-> FALSE ]

SetAll(headers, more) ==
  [k \in DOMAIN headers \cup DOMAIN more |-> IF k \in DOMAIN more THEN more[k] ELSE headers[k]]

SecurityHeaders(headers) ==
  SetHeader(SetHeader(SetHeader(SetHeader(SetHeader(headers,
    "X-Content-Type-Options", "nosniff"),
    "X-Frame-Options", "DENY"),
    "X-XSS-Protection", "1; mode=block"),
    "Referrer-Policy", "strict-origin-when-cross-origin"),
    "Content-Security-Policy", "default-src 'self'")

\* w.WriteHeader(code): the first status written stays.
WriteHeader(st, code) == IF st.status = 0 THEN [st EXCEPT !.status = code] ELSE st

\* RateLimit's answer to a request allow refused.
TooManyRequests(st) ==
  [ WriteHeader([st EXCEPT !.headers = SetHeader(SetHeader(st.headers,
                   "Content-Type", "application/json"), "Retry-After", "60")], 429)
    EXCEPT !.body = "{\"success\":false,\"error\":\"Rate limit exceeded. Please try again later.\"}" ]

\* Recovery's deferred function when an inner handler has panicked.
Recovered(st) ==
  [ WriteHeader([st EXCEPT !.headers = SetHeader(st.headers,
                   "Content-Type", "application/json")], 500)
    EXCEPT !.body = "{\"success\":false,\"error\":\"Internal server error\"}" ]

\* RequestID: the X-Request-ID of the request, or an id made from the clock.
RequestIDOf(r) == IF r.requestID # "" THEN r.requestID ELSE "generated"

\* Run the parts of the pipeline from part i on, up to the call of allow
\* or the end of the outermost handler. A panic of the route handler
\* unwinds the handlers inside Recovery.
RECURSIVE Run(_, _)
Run(i, st) ==
  IF i > Len(Pipeline) THEN [st EXCEPT !.pc = "done", !.at = i]
  ELSE
    LET part == Pipeline[i]
        ran == [st EXCEPT !.trace = Append(st.trace, part)]
    IN CASE part = "before RateLimit" ->
              [ran EXCEPT !.pc = "getVisitor", !.at = i]
         [] part = "before CORS" ->
              LET c == CORS(AllowedOrigins, st.r.origin, st.r.method)
                  set == [ran EXCEPT !.headers = SetAll(st.headers, c.headers)]
              IN IF c.next THEN Run(i + 1, set)
                 ELSE Run(IndexOf("after CORS"), WriteHeader(set, c.status))
         [] part = "before SecurityHeaders" ->
              Run(i + 1, [ran EXCEPT !.headers = SecurityHeaders(st.headers)])
         [] part = "before RequestID" ->
              Run(i + 1, [ran EXCEPT !.headers = SetHeader(st.headers, "X-Request-ID",
                                                            RequestIDOf(st.r)),
                                     !.requestID = RequestIDOf(st.r)])
         [] part = "router" ->
              IF st.r.panics THEN Run(IndexOf("after Recovery"), Recovered(ran))
              ELSE Run(i + 1, WriteHeader(ran, 200))
         [] OTHER -> Run(i + 1, ran)

\* A visitor as getVisitor creates and resets it.
NewVisitor(now) == [tokens |-> Limit, lastReset |-> now]

\* cleanup: the keys it deletes at time now.
Stale(map, objects, now) ==
  { k \in DOMAIN map : now - objects[map[k]].lastReset > CleanupAge }

\* ------------------------------------------------------------- Register
\* A request body, as the sequence of its pieces: JSON objects of a
\* RegisterRequest (long: the password is longer than bcrypt takes), other
\* JSON values, and text that is no JSON value.
Emails == {"a@example.org", "b@example.org"}

\* The values of the property email of a User node: the emails, and the
\* empty string of a request that names none.
Addresses == Emails \cup {""}

Object(email, long) == [kind |-> "object", email |-> email, long |-> long]
Array == [kind |-> "array", email |-> "", long |-> FALSE]
Null == [kind |-> "null", email |-> "", long |-> FALSE]
Text == [kind |-> "text", email |-> "", long |-> FALSE]

Bodies ==
  { <<Object(e, FALSE)>> : e \in Emails } \cup
  { <<Object("a@example.org", TRUE)>>,
    <<Object("a@example.org", FALSE), Text>>,
    <<Text, Object("a@example.org", FALSE)>>,
    <<Text>>, <<Array>>, <<Null>>, <<>> }

\* The body is one JSON value and nothing else.
ValidJSON(body) == Len(body) = 1 /\ body[1].kind # "text"

\* json.NewDecoder(r.Body).Decode(&req): the first value of the body is
\* read, what follows it is not; null leaves req as it is.
Decode(body) ==
  IF body = <<>> THEN [err |-> "EOF", Email |-> "", long |-> FALSE]
  ELSE IF body[1].kind = "text"
  THEN [err |-> "invalid character", Email |-> "", long |-> FALSE]
  ELSE IF body[1].kind = "null"
  THEN [err |-> None, Email |-> "", long |-> FALSE]
  ELSE IF body[1].kind # "object"
  THEN [err |-> "cannot unmarshal", Email |-> "", long |-> FALSE]
  ELSE [err |-> None, Email |-> body[1].email, long |-> body[1].long]

\* The constraint user_email of initializeSchema: a User node with the
\* email can be created when the database holds none.
NoConstraint(db, email) == TRUE
UserEmailUnique(db, email) == db[email] = 0

\* The goroutines serving Register requests, one request each.
Registrars == {"g1", "g2"}

\* A Register call: where it is, the body, the decoded request, what the
\* existence check reported, the response, the database operations made.
NotRegistering ==
  [ pc |-> "idle", body |-> <<>>, Email |-> "", long |-> FALSE, exists |-> FALSE,
    status |-> 0, success |-> FALSE, code |-> "", ops |-> <<>> ]

\* The last answer of CreateUser or DeleteUser.
NoAnswer == [fn |-> "", status |-> 0, code |-> ""]
Answer(fn, st, code) == [fn |-> fn, status |-> st, code |-> code]

\* respondError(w, status, code, message)
respondError(st, s, code) ==
  [st EXCEPT !.pc = "done", !.status = s, !.success = FALSE, !.code = code]

VARIABLES
  publicKeys,  \* ka.publicKeys: key identifier -> public key
  mu,          \* ka.mu: w, the goroutine in Lock or holding the write lock;
               \* readers, the goroutines holding the read lock
  pc,          \* where each goroutine is
  tok,         \* the token a ValidateToken call was given
  key,         \* the key a lookup of getPublicKey read
  jwks,        \* the key set a refresh decoded
  status,      \* the HTTP status of the response a refresh received
  idx,         \* the position of a refresh in its loop over jwks.Keys
  ret,         \* what the last refreshPublicKeys of a goroutine returned
  result,      \* what ValidateToken returned
  lookups,     \* cache lookups made by the current ValidateToken call
  refreshes,   \* refreshPublicKeys calls made by the current ValidateToken call
  committed,   \* the cache as the last completed refresh left it
  http,        \* the request a request goroutine serves and its response
  call         \* a call of a function without side effects: its arguments
               \* and what it returned

VARIABLES
  visitors,    \* rl.visitors: key -> visitor, a pointer into heap
  heap,        \* the visitors allocated so far
  clock,       \* time.Now(): the instant reached, a position in Instants
  wake,        \* when the Sleep of the cleanup goroutine ends
  srv,         \* the request goroutines of the server
  passed,      \* per key, the requests passed since its window began
  users,       \* the database: email -> number of User nodes with it
  removed,     \* the emails of the User nodes DeleteUser has deleted
  admin,       \* the last answer of CreateUser or DeleteUser
  reg          \* the Register calls

keycloakVars == << publicKeys, mu, pc, tok, key, jwks, status, idx, ret, result,
                   lookups, refreshes, committed, http, call >>

limiterVars == << visitors, heap, clock, wake, srv, passed >>

registerVars == << users, reg, removed, admin >>

serverVars == << limiterVars, registerVars >>

vars == << keycloakVars, serverVars >>

\* The state NewKeycloakAuth returns in, no request being served.
Constructed ==
  /\ publicKeys = << >>
  /\ mu = [w |-> None, readers |-> {}]
  /\ pc = [p \in Procs |-> IF p = "init" THEN "start"
                            ELSE IF p = "ticker" THEN "wait" ELSE "idle"]
  /\ tok = [v \in Validators |-> NoToken]
  /\ key = [v \in Validators |-> NoKey]
  /\ jwks = [p \in Procs |-> <<>>]
  /\ status = [p \in Procs |-> 0]
  /\ idx = [p \in Procs |-> 0]
  /\ ret = [p \in Procs |-> NoReturn]
  /\ result = [v \in Validators |-> NoResult]
  /\ lookups = [v \in Validators |-> 0]
  /\ refreshes = [v \in Validators |-> 0]
  /\ committed = << >>
  /\ http = [v \in Validators |-> NoRequest]

\* The state RateLimit(n) returns in: no visitor, the cleanup goroutine
\* asleep, no request being served.
Listening ==
  /\ visitors = << >>
  /\ heap = << >>
  /\ clock = 1
  /\ wake = CleanupSleep
  /\ srv = [c \in Conns |-> Idle]
  /\ passed = [k \in ClientKeys |-> 0]

\* The state NewNeo4jClient returns in, no user registered and no Register
\* call running.
Connected ==
  /\ users = [e \in Addresses |-> 0]
  /\ reg = [g \in Registrars |-> NotRegistering]
  /\ removed = {}
  /\ admin = NoAnswer

Init == Constructed /\ Listening /\ Connected /\ call = NoCall

\* A call of a function without side effects is about to be made.
InitFn == Constructed /\ Listening /\ Connected /\ call \in Calls

\* The server starts on a database that may hold users already, one for an
\* email at most.
InitReg ==
  /\ Constructed /\ Listening /\ call = NoCall
  /\ users \in [Addresses -> 0..1]
  /\ reg = [g \in Registrars |-> NotRegistering]
  /\ removed = {}
  /\ admin = NoAnswer

\* ---- sync.RWMutex
\* RLock returns when no writer holds or has asked for the lock.
CanRLock(m) == m.w = None

\* Lock first excludes the other writers and the readers to come ...
CanLock(m) == m.w = None

\* ... and returns when the readers that hold the lock have left.
CanEnterAlways(m) == TRUE
CanEnter(m) == m.readers = {}

\* Unlock gives the lock up.
ReleaseMissing(m, p) == m
Release(m, p) == [m EXCEPT !.w = None]

\* ---- refreshPublicKeys, run by goroutine p
\* The key identifiers the loop over keys installs.
InstalledKids(keys) ==
  { keys[i].Kid : i \in { j \in 1..Len(keys) : InstallKey(<< >>, keys[j]) # << >> } }

\* The cache after a refresh that returns an error before the lock.
CacheOnErrorCleared(cache) == << >>
CacheOnError(cache) == cache

\* Where p continues when its refreshPublicKeys returns err: the
\* background goroutines drop the error, getPublicKey returns it or
\* retries the lookup.
AfterRefreshFatal(p, err) ==
  IF p \notin Validators THEN (IF err # None THEN "done" ELSE "returned")
  ELSE IF err # None THEN "done" ELSE "rlock2"

AfterRefresh(p, err) ==
  IF p \notin Validators THEN "returned"
  ELSE IF err # None THEN "done" ELSE "rlock2"

RefreshReturns(p, st, err, kids) ==
  /\ ret' = [ret EXCEPT ![p] = [status |-> st, err |-> err, kids |-> kids]]
  /\ pc' = [pc EXCEPT ![p] = AfterRefresh(p, err)]
  /\ jwks' = [jwks EXCEPT ![p] = <<>>]
  /\ status' = [status EXCEPT ![p] = 0]
  /\ idx' = [idx EXCEPT ![p] = 0]
  /\ result' = IF p \in Validators /\ err # None
               THEN [result EXCEPT ![p] =
                       Failure("failed to parse token: failed to refresh keys: " \o err, NoTime)]
               ELSE result

\* The go statement of NewKeycloakAuth: the first refresh sends its request.
InitialRefresh ==
  /\ pc["init"] = "start"
  /\ pc' = [pc EXCEPT !["init"] = "fetch"]
  /\ UNCHANGED << publicKeys, mu, tok, key, jwks, status, idx, ret, result,
                  lookups, refreshes, committed >>
  /\ UNCHANGED << http, call, serverVars >>

\* ticker.C delivers: the periodic refresh sends its request.
Tick ==
  /\ pc["ticker"] = "wait"
  /\ pc' = [pc EXCEPT !["ticker"] = "fetch"]
  /\ UNCHANGED << publicKeys, mu, tok, key, jwks, status, idx, ret, result,
                  lookups, refreshes, committed >>
  /\ UNCHANGED << http, call, serverVars >>

\* A background goroutine drops what its refresh returned: the first
\* refresh ends, the ticker loop waits for the next tick.
Dropped(p) ==
  /\ p \notin Validators
  /\ pc[p] = "returned"
  /\ pc' = [pc EXCEPT ![p] = IF p = "init" THEN "done" ELSE "wait"]
  /\ ret' = [ret EXCEPT ![p] = NoReturn]
  /\ UNCHANGED << publicKeys, mu, tok, key, jwks, status, idx, result,
                  lookups, refreshes, committed >>
  /\ UNCHANGED << http, call, serverVars >>

\* http.Get returns and the body is decoded; on an error the refresh
\* returns, otherwise it goes on to ka.mu.Lock().
Receive(p, resp) ==
  /\ pc[p] = "fetch"
  /\ LET r == FetchResult(resp) IN
     IF r.err # None
     THEN /\ RefreshReturns(p, resp.status, r.err, {})
          /\ publicKeys' = CacheOnError(publicKeys)
     ELSE /\ jwks' = [jwks EXCEPT ![p] = r.keys]
          /\ status' = [status EXCEPT ![p] = resp.status]
          /\ pc' = [pc EXCEPT ![p] = "lock"]
          /\ UNCHANGED << publicKeys, idx, ret, result >>
  /\ UNCHANGED << mu, tok, key, lookups, refreshes, committed >>
  /\ UNCHANGED << http, call, serverVars >>

\* ka.mu.Lock() is called.
Lock(p) ==
  /\ pc[p] = "lock"
  /\ CanLock(mu)
  /\ mu' = [mu EXCEPT !.w = p]
  /\ pc' = [pc EXCEPT ![p] = "lockwait"]
  /\ UNCHANGED << publicKeys, tok, key, jwks, status, idx, ret, result,
                  lookups, refreshes, committed >>
  /\ UNCHANGED << http, call, serverVars >>

\* ka.mu.Lock() returns.
Locked(p) ==
  /\ pc[p] = "lockwait"
  /\ CanEnter(mu)
  /\ pc' = [pc EXCEPT ![p] = "install"]
  /\ idx' = [idx EXCEPT ![p] = 1]
  /\ UNCHANGED << publicKeys, mu, tok, key, jwks, status, ret, result,
                  lookups, refreshes, committed >>
  /\ UNCHANGED << http, call, serverVars >>

\* One iteration of the loop over jwks.Keys.
Install(p) ==
  /\ pc[p] = "install"
  /\ idx[p] <= Len(jwks[p])
  /\ publicKeys' = InstallKey(publicKeys, jwks[p][idx[p]])
  /\ idx' = [idx EXCEPT ![p] = idx[p] + 1]
  /\ UNCHANGED << mu, pc, tok, key, jwks, status, ret, result,
                  lookups, refreshes, committed >>
  /\ UNCHANGED << http, call, serverVars >>

\* The loop is over: return nil, and the deferred ka.mu.Unlock().
Unlock(p) ==
  /\ pc[p] = "install"
  /\ idx[p] > Len(jwks[p])
  /\ mu' = Release(mu, p)
  /\ committed' = publicKeys
  /\ RefreshReturns(p, status[p], None, InstalledKids(jwks[p]))
  /\ UNCHANGED << publicKeys, tok, key, lookups, refreshes >>
  /\ UNCHANGED << http, call, serverVars >>

\* ---- ValidateToken, run by request goroutine v
\* ParseWithClaims reads the header and calls the key function.
Start(v, t) ==
  /\ pc[v] = "idle"
  /\ tok' = [tok EXCEPT ![v] = t]
  /\ IF ParseUnverified(t) # None
     THEN /\ pc' = [pc EXCEPT ![v] = "done"]
          /\ result' = [result EXCEPT ![v] =
                Failure("failed to parse token: " \o ParseUnverified(t), NoTime)]
     ELSE IF Keyfunc(t) # None
     THEN /\ pc' = [pc EXCEPT ![v] = "done"]
          /\ result' = [result EXCEPT ![v] =
                Failure("failed to parse token: " \o Keyfunc(t), NoTime)]
     ELSE /\ pc' = [pc EXCEPT ![v] = "rlock1"]
          /\ UNCHANGED result
  /\ UNCHANGED << publicKeys, mu, key, jwks, status, idx, ret,
                  lookups, refreshes, committed >>
  /\ UNCHANGED << http, call, serverVars >>

\* getPublicKey: ka.mu.RLock() returns, for the first or the second lookup.
RLock(v) ==
  /\ pc[v] \in {"rlock1", "rlock2"}
  /\ CanRLock(mu)
  /\ mu' = [mu EXCEPT !.readers = @ \cup {v}]
  /\ pc' = [pc EXCEPT ![v] = IF pc[v] = "rlock1" THEN "read1" ELSE "read2"]
  /\ lookups' = [lookups EXCEPT ![v] = @ + 1]
  /\ UNCHANGED << publicKeys, tok, key, jwks, status, idx, ret, result,
                  refreshes, committed >>
  /\ UNCHANGED << http, call, serverVars >>

\* Where getPublicKey goes after its n-th lookup.
AfterLookupRetryAgain(n, exists) ==
  IF exists THEN "verify" ELSE "fetch"
AfterLookup(n, exists) ==
  IF exists THEN "verify"
  ELSE IF n = 1 THEN "fetch"
  ELSE "done"

\* key, exists = ka.publicKeys[kid] and ka.mu.RUnlock(); a miss of the
\* first lookup calls refreshPublicKeys, a miss of the second returns the
\* error.
Read(v) ==
  /\ pc[v] \in {"read1", "read2"}
  /\ LET kid == tok[v].kid
         exists == kid \in DOMAIN publicKeys
         next == AfterLookup(IF pc[v] = "read1" THEN 1 ELSE 2, exists)
     IN /\ key' = [key EXCEPT ![v] = IF exists THEN publicKeys[kid] ELSE NoKey]
        /\ pc' = [pc EXCEPT ![v] = next]
        /\ refreshes' = [refreshes EXCEPT ![v] = IF next = "fetch" THEN @ + 1 ELSE @]
        /\ result' = [result EXCEPT ![v] =
              IF next = "done"
              THEN Failure("failed to parse token: key with kid " \o kid \o " not found", NoTime)
              ELSE @]
  /\ mu' = [mu EXCEPT !.readers = @ \ {v}]
  /\ UNCHANGED << publicKeys, tok, jwks, status, idx, ret, lookups, committed >>
  /\ UNCHANGED << http, call, serverVars >>

\* The key function has returned the key: the rest of ValidateToken, with
\* time.Now() = now.
Finish(v, now) ==
  /\ pc[v] = "verify"
  /\ result' = [result EXCEPT ![v] = CheckToken(tok[v], key[v], now)]
  /\ pc' = [pc EXCEPT ![v] = "done"]
  /\ UNCHANGED << publicKeys, mu, tok, key, jwks, status, idx, ret,
                  lookups, refreshes, committed >>
  /\ UNCHANGED << http, call, serverVars >>

\* The caller has the result; the goroutine serves the next request.
Return(v) ==
  /\ pc[v] = "done"
  /\ pc' = [pc EXCEPT ![v] = "idle"]
  /\ tok' = [tok EXCEPT ![v] = NoToken]
  /\ key' = [key EXCEPT ![v] = NoKey]
  /\ ret' = [ret EXCEPT ![v] = NoReturn]
  /\ result' = [result EXCEPT ![v] = NoResult]
  /\ lookups' = [lookups EXCEPT ![v] = 0]
  /\ refreshes' = [refreshes EXCEPT ![v] = 0]
  /\ UNCHANGED << publicKeys, mu, jwks, status, idx, committed >>
  /\ UNCHANGED << http, call, serverVars >>

\* ---- the middleware, run by request goroutine v
\* A request arrives. Authenticate calls ExtractBearerToken and answers,
\* or goes on to call ValidateToken; a route without Authenticate starts
\* with its next middleware, the context empty.
Arrive(v, r) ==
  /\ pc[v] = "idle"
  /\ http[v].stage # "validate"
  /\ ~r.route.optional
  /\ LET e == ExtractBearerToken(r)
         a == AfterExtract(e)
         g == Guard(r.route, NoClaims)
     IN http' = [http EXCEPT ![v] =
          IF ~r.route.auth
          THEN [NoRequest EXCEPT !.stage = "responded", !.req = r,
                  !.calls = <<r.route.guard>> \o (IF g.next THEN <<"next">> ELSE <<>>),
                  !.resp = g.resp]
          ELSE IF ~a.validate
          THEN [NoRequest EXCEPT !.stage = "responded", !.req = r,
                  !.calls = <<"ExtractBearerToken">>, !.resp = a.resp]
          ELSE [NoRequest EXCEPT !.stage = "validate", !.req = r, !.token = e.token,
                  !.calls = <<"ExtractBearerToken", "ValidateToken">>]]
  /\ UNCHANGED << publicKeys, mu, pc, tok, key, jwks, status, idx, ret, result,
                  lookups, refreshes, committed, call >>
  /\ UNCHANGED serverVars

\* ka.auth.ValidateToken(tokenString) is entered.
Validate(v) ==
  /\ http[v].stage = "validate"
  /\ Start(v, ParseJWT(http[v].token))

\* ValidateToken has returned: Authenticate answers, or passes the request
\* on to the next middleware and the handler.
Respond(v) ==
  /\ pc[v] = "done"
  /\ http[v].stage = "validate"
  /\ ~http[v].req.route.optional
  /\ LET a == AfterValidate(result[v], http[v].req.access)
         g == Guard(http[v].req.route, a.claims)
         guarded == http[v].req.route.guard # "none"
     IN http' = [http EXCEPT ![v] =
          [@ EXCEPT !.stage = "responded",
                    !.claims = a.claims,
                    !.log = a.log,
                    !.resp = IF a.next THEN g.resp ELSE a.resp,
                    !.calls = IF ~a.next THEN @
                              ELSE @ \o (IF guarded THEN <<http[v].req.route.guard>> ELSE <<>>)
                                     \o (IF g.next THEN <<"next">> ELSE <<>>)]]
  /\ UNCHANGED << publicKeys, mu, pc, tok, key, jwks, status, idx, ret, result,
                  lookups, refreshes, committed, call >>
  /\ UNCHANGED serverVars

\* OptionalAuth receives request r: a request without a well-formed
\* Authorization header is passed on as it is.
OptionalAuth(v, r) ==
  /\ pc[v] = "idle"
  /\ http[v].stage # "validate"
  /\ r.route.optional
  /\ LET e == OptionalAuthToken(r)
         g == Guard(r.route, NoClaims)
         guarded == r.route.guard # "none"
     IN http' = [http EXCEPT ![v] =
          IF ~e.validate
          THEN [NoRequest EXCEPT !.stage = "responded", !.req = r,
                  !.calls = (IF guarded THEN <<r.route.guard>> ELSE <<>>)
                            \o (IF g.next THEN <<"next">> ELSE <<>>),
                  !.resp = g.resp]
          ELSE [NoRequest EXCEPT !.stage = "validate", !.req = r, !.token = e.token,
                  !.calls = <<"ValidateToken">>]]
  /\ UNCHANGED << publicKeys, mu, pc, tok, key, jwks, status, idx, ret, result,
                  lookups, refreshes, committed, call >>
  /\ UNCHANGED serverVars

\* ValidateToken has returned to OptionalAuth, which passes the request on
\* to the next middleware and the handler whatever the result.
OptionalAuthReturn(v) ==
  /\ pc[v] = "done"
  /\ http[v].stage = "validate"
  /\ http[v].req.route.optional
  /\ LET a == AfterValidateOptional(result[v], http[v].req.access)
         g == Guard(http[v].req.route, a.claims)
         guarded == http[v].req.route.guard # "none"
     IN http' = [http EXCEPT ![v] =
          [@ EXCEPT !.stage = "responded",
                    !.claims = a.claims,
                    !.log = a.log,
                    !.resp = g.resp,
                    !.calls = @ \o (IF guarded THEN <<http[v].req.route.guard>> ELSE <<>>)
                                \o (IF g.next THEN <<"next">> ELSE <<>>)]]
  /\ UNCHANGED << publicKeys, mu, pc, tok, key, jwks, status, idx, ret, result,
                  lookups, refreshes, committed, call >>
  /\ UNCHANGED serverVars

\* The request is over.
Served(v) ==
  /\ http[v].stage = "responded"
  /\ Return(v)

\* ---- the functions without side effects
ApplyHasRole ==
  /\ call.fn = "HasRole"
  /\ ~call.returned
  /\ call' = [call EXCEPT !.returned = TRUE, !.has = HasRole(call.claims, call.role)]
  /\ UNCHANGED << publicKeys, mu, pc, tok, key, jwks, status, idx, ret, result,
                  lookups, refreshes, committed, http >>
  /\ UNCHANGED serverVars

ApplyExtractBearerToken ==
  /\ call.fn = "ExtractBearerToken"
  /\ ~call.returned
  /\ call' = [call EXCEPT !.returned = TRUE, !.extracted = ExtractBearerToken(call.r)]
  /\ UNCHANGED << publicKeys, mu, pc, tok, key, jwks, status, idx, ret, result,
                  lookups, refreshes, committed, http >>
  /\ UNCHANGED serverVars

ApplyChain ==
  /\ call.fn = "Chain"
  /\ ~call.returned
  /\ call' = [call EXCEPT !.returned = TRUE, !.chained = Chain(call.h, call.middlewares)]
  /\ UNCHANGED << publicKeys, mu, pc, tok, key, jwks, status, idx, ret, result,
                  lookups, refreshes, committed, http >>
  /\ UNCHANGED serverVars

ApplyCORS ==
  /\ call.fn = "CORS"
  /\ ~call.returned
  /\ call' = [call EXCEPT !.returned = TRUE,
                          !.cors = CORS(call.allowedOrigins, call.origin, call.method)]
  /\ UNCHANGED << publicKeys, mu, pc, tok, key, jwks, status, idx, ret, result,
                  lookups, refreshes, committed, http >>
  /\ UNCHANGED serverVars

ApplyGetPaginationParams ==
  /\ call.fn = "getPaginationParams"
  /\ ~call.returned
  /\ call' = [call EXCEPT !.returned = TRUE, !.params = getPaginationParams(call.query)]
  /\ UNCHANGED << publicKeys, mu, pc, tok, key, jwks, status, idx, ret, result,
                  lookups, refreshes, committed, http >>
  /\ UNCHANGED serverVars

ApplyJWTAuth ==
  /\ call.fn = "JWTAuth"
  /\ ~call.returned
  /\ call' = [call EXCEPT !.returned = TRUE,
                          !.auth = JWTAuth(call.secret, call.r, call.now)]
  /\ UNCHANGED << publicKeys, mu, pc, tok, key, jwks, status, idx, ret, result,
                  lookups, refreshes, committed, http >>
  /\ UNCHANGED serverVars

ApplyParseRSAPublicKey ==
  /\ call.fn = "parseRSAPublicKey"
  /\ ~call.returned
  /\ call' = [call EXCEPT !.returned = TRUE, !.parsed = parseRSAPublicKey(call.jwk)]
  /\ UNCHANGED << publicKeys, mu, pc, tok, key, jwks, status, idx, ret, result,
                  lookups, refreshes, committed, http >>
  /\ UNCHANGED serverVars

\* ---- the server, request goroutine c

\* The server receives request r: Logger and CORS run, and RateLimit up to
\* its call of allow; a preflight is answered by CORS.
Accept(c, r) ==
  /\ srv[c].pc = "idle"
  /\ srv' = [srv EXCEPT ![c] = Run(1, [Idle EXCEPT !.r = r])]
  /\ UNCHANGED << visitors, heap, clock, wake, passed >>
  /\ UNCHANGED << keycloakVars, registerVars >>

\* getVisitor(ip), under rl.mu
GetVisitor(c) ==
  /\ srv[c].pc = "getVisitor"
  /\ LET ip == ClientKey(srv[c].r)
         exists == ip \in DOMAIN visitors
         v == IF exists THEN visitors[ip] ELSE Len(heap) + 1
         now == Instants[clock]
         created == IF exists THEN heap ELSE Append(heap, NewVisitor(now))
         expired == now - created[v].lastReset > Window
     IN /\ visitors' = [k \in DOMAIN visitors \cup {ip} |->
                          IF k = ip THEN v ELSE visitors[k]]
        /\ heap' = IF expired THEN [created EXCEPT ![v] = NewVisitor(now)] ELSE created
        /\ srv' = [srv EXCEPT ![c].v = v, ![c].pc = "allow"]
        /\ passed' = IF ~exists \/ expired THEN [passed EXCEPT ![ip] = 0] ELSE passed
  /\ UNCHANGED << clock, wake >>
  /\ UNCHANGED << keycloakVars, registerVars >>

\* The rest of allow(ip), under rl.mu again, and what RateLimit does with
\* the answer: the inner handlers run, or the request is answered 429.
Allow(c) ==
  /\ srv[c].pc = "allow"
  /\ LET st == srv[c]
     IN IF heap[st.v].tokens > 0
        THEN /\ heap' = [heap EXCEPT ![st.v].tokens = @ - 1]
             /\ srv' = [srv EXCEPT ![c] = Run(st.at + 1, [st EXCEPT !.consumed = TRUE])]
             /\ passed' = [passed EXCEPT ![ClientKey(st.r)] = @ + 1]
        ELSE /\ srv' = [srv EXCEPT ![c] = Run(IndexOf("after RateLimit"), TooManyRequests(st))]
             /\ UNCHANGED << heap, passed >>
  /\ UNCHANGED << visitors, clock, wake >>
  /\ UNCHANGED << keycloakVars, registerVars >>

\* The cleanup goroutine: Sleep has ended, cleanup runs under rl.mu, Sleep
\* begins again.
Cleanup ==
  /\ Instants[clock] >= wake
  /\ visitors' = [k \in DOMAIN visitors \ Stale(visitors, heap, Instants[clock]) |->
                    visitors[k]]
  /\ wake' = Instants[clock] + CleanupSleep
  /\ UNCHANGED << heap, clock, srv, passed >>
  /\ UNCHANGED << keycloakVars, registerVars >>

\* Time passes, up to the next instant.
Advance ==
  /\ clock < Len(Instants)
  /\ clock' = clock + 1
  /\ UNCHANGED << visitors, heap, wake, srv, passed >>
  /\ UNCHANGED << keycloakVars, registerVars >>

\* ---- Register, run by goroutine g

\* Register is called with body: the body is decoded.
Register(g, body) ==
  /\ reg[g].pc = "idle"
  /\ LET req == Decode(body)
         st == [reg[g] EXCEPT !.body = body]
     IN reg' = [reg EXCEPT ![g] =
                  IF req.err # None THEN respondError(st, 400, "INVALID_JSON")
                  ELSE [st EXCEPT !.pc = "read", !.Email = req.Email, !.long = req.long]]
  /\ UNCHANGED << users, removed, admin, keycloakVars, limiterVars >>

\* h.db.ExecuteRead: the transaction that looks the email up, which the
\* database may fail. Its error is dropped and exists is then nil, so
\* exists.(bool) panics. Then the password is hashed, which bcrypt may
\* refuse for a long one.
ExecuteRead(g, failed, hashed) ==
  /\ reg[g].pc = "read"
  /\ LET st == [reg[g] EXCEPT !.ops = Append(@, "read")]
         exists == users[st.Email] > 0
     IN reg' = [reg EXCEPT ![g] =
                  IF failed THEN respondError(st, 500, "panic")
                  ELSE IF exists
                  THEN respondError([st EXCEPT !.exists = TRUE], 409, "EMAIL_EXISTS")
                  ELSE IF st.long /\ ~hashed THEN respondError(st, 500, "HASH_ERROR")
                  ELSE [st EXCEPT !.pc = "write"]]
  /\ UNCHANGED << users, removed, admin, keycloakVars, limiterVars >>

\* h.db.ExecuteWrite: the transaction that creates the user, which fails
\* when the database fails or the constraint forbids the node.
ExecuteWrite(g, failed) ==
  /\ reg[g].pc = "write"
  /\ LET st == [reg[g] EXCEPT !.ops = Append(@, "write")]
     IN IF failed \/ ~UserEmailUnique(users, st.Email)
        THEN /\ reg' = [reg EXCEPT ![g] = respondError(st, 500, "DATABASE_ERROR")]
             /\ UNCHANGED users
        ELSE /\ users' = [users EXCEPT ![st.Email] = @ + 1]
             /\ reg' = [reg EXCEPT ![g] = [st EXCEPT !.pc = "done", !.status = 201,
                                                     !.success = TRUE]]
  /\ UNCHANGED << removed, admin, keycloakVars, limiterVars >>

\* CreateUser: the body is decoded, the password hashed, and one
\* ExecuteWrite creates the User node without looking the email up; the
\* transaction fails when the database fails or the constraint forbids
\* the node.
CreateUser(body, failed, hashed) ==
  /\ LET req == Decode(body)
     IN IF req.err # None
        THEN /\ admin' = Answer("CreateUser", 400, "INVALID_JSON")
             /\ UNCHANGED users
        ELSE IF req.long /\ ~hashed
        THEN /\ admin' = Answer("CreateUser", 500, "HASH_ERROR")
             /\ UNCHANGED users
        ELSE IF failed \/ ~UserEmailUnique(users, req.Email)
        THEN /\ admin' = Answer("CreateUser", 500, "DATABASE_ERROR")
             /\ UNCHANGED users
        ELSE /\ admin' = Answer("CreateUser", 201, "")
             /\ users' = [users EXCEPT ![req.Email] = @ + 1]
  /\ UNCHANGED << reg, removed, keycloakVars, limiterVars >>

\* DeleteUser: one ExecuteWrite deletes the User node with the id of the
\* path, if there is one; e is the email of that node.
DeleteUser(e, failed) ==
  /\ IF failed
     THEN /\ admin' = Answer("DeleteUser", 500, "DATABASE_ERROR")
          /\ UNCHANGED << users, removed >>
     ELSE /\ admin' = Answer("DeleteUser", 200, "")
          /\ users' = [users EXCEPT ![e] = IF @ > 0 THEN @ - 1 ELSE 0]
          /\ removed' = IF users[e] > 0 THEN removed \cup {e} ELSE removed
  /\ UNCHANGED << reg, keycloakVars, limiterVars >>

\* Every goroutine runs.
Next ==
  \/ InitialRefresh
  \/ Tick
  \/ \E p \in Procs : Dropped(p)
  \/ \E p \in Procs : \E resp \in CoreResponses : Receive(p, resp)
  \/ \E p \in Procs : Lock(p)
  \/ \E p \in Procs : Locked(p)
  \/ \E p \in Procs : Install(p)
  \/ \E p \in Procs : Unlock(p)
  \/ \E v \in Validators : \E t \in CoreTokens : Start(v, t)
  \/ \E v \in Validators : RLock(v)
  \/ \E v \in Validators : Read(v)
  \/ \E v \in Validators : \E now \in 0..MaxTime : Finish(v, now)
  \/ \E v \in Validators : Return(v)

Spec == Init /\ [][Next]_vars

\* One request goroutine at a time, given any of Tokens, beside the ticker
\* goroutine.
TokProcs == {"ticker", "v1"}

NextTok ==
  \/ Tick
  \/ Dropped("ticker")
  \/ \E p \in TokProcs : \E resp \in Responses : Receive(p, resp)
  \/ \E p \in TokProcs : Lock(p)
  \/ \E p \in TokProcs : Locked(p)
  \/ \E p \in TokProcs : Install(p)
  \/ \E p \in TokProcs : Unlock(p)
  \/ \E t \in Tokens : Start("v1", t)
  \/ RLock("v1")
  \/ Read("v1")
  \/ \E now \in 0..MaxTime : Finish("v1", now)
  \/ Return("v1")

SpecTok == Init /\ [][NextTok]_vars

\* Both background goroutines and one request goroutine, with the
\* scheduling the Go runtime and sync.RWMutex give: a goroutine that can
\* run does run, a reader blocked by a writer gets the lock when that writer
\* unlocks, a goroutine in Lock is not overtaken for ever. Nothing makes the provider answer, a tick come or a request
\* arrive.
LiveProcs == {"init", "ticker", "v1"}

NextLive ==
  \/ InitialRefresh
  \/ Tick
  \/ \E p \in LiveProcs : Dropped(p)
  \/ \E p \in LiveProcs : \E resp \in CoreResponses : Receive(p, resp)
  \/ \E p \in LiveProcs : Lock(p)
  \/ \E p \in LiveProcs : Locked(p)
  \/ \E p \in LiveProcs : Install(p)
  \/ \E p \in LiveProcs : Unlock(p)
  \/ \E t \in CoreTokens : Start("v1", t)
  \/ RLock("v1")
  \/ Read("v1")
  \/ \E now \in 0..MaxTime : Finish("v1", now)
  \/ Return("v1")

SpecLive ==
  /\ Init /\ [][NextLive]_vars
  /\ WF_vars(InitialRefresh)
  /\ \A p \in LiveProcs :
       /\ SF_vars(Lock(p)) /\ WF_vars(Locked(p)) /\ WF_vars(Install(p)) /\ WF_vars(Unlock(p))
       /\ WF_vars(Dropped(p))
  /\ SF_vars(RLock("v1"))
  /\ WF_vars(Read("v1"))
  /\ WF_vars(\E now \in 0..MaxTime : Finish("v1", now))

\* One request goroutine serving Requests through the middleware, beside
\* the ticker goroutine.
NextHTTP ==
  \/ Tick
  \/ Dropped("ticker")
  \/ \E p \in TokProcs : \E resp \in CoreResponses : Receive(p, resp)
  \/ \E p \in TokProcs : Lock(p)
  \/ \E p \in TokProcs : Locked(p)
  \/ \E p \in TokProcs : Install(p)
  \/ \E p \in TokProcs : Unlock(p)
  \/ \E r \in Requests : Arrive("v1", r)
  \/ Validate("v1")
  \/ RLock("v1")
  \/ Read("v1")
  \/ \E now \in 0..MaxTime : Finish("v1", now)
  \/ Respond("v1")
  \/ \E r \in OptionalRequests : OptionalAuth("v1", r)
  \/ OptionalAuthReturn("v1")
  \/ Served("v1")

SpecHTTP == Init /\ [][NextHTTP]_vars

\* One call of a function without side effects.
NextFn ==
  \/ ApplyHasRole
  \/ ApplyExtractBearerToken
  \/ ApplyChain
  \/ ApplyCORS
  \/ ApplyGetPaginationParams
  \/ ApplyJWTAuth
  \/ ApplyParseRSAPublicKey

SpecFn == InitFn /\ [][NextFn]_vars

\* The server: its request goroutines, the cleanup goroutine and the clock.
NextRL ==
  \/ \E c \in Conns, r \in Inbound : Accept(c, r)
  \/ \E c \in Conns : GetVisitor(c)
  \/ \E c \in Conns : Allow(c)
  \/ Cleanup
  \/ Advance

SpecRL == Init /\ [][NextRL]_vars

\* Register calls, concurrently.
NextReg ==
  \/ \E g \in Registrars, body \in Bodies : Register(g, body)
  \/ \E g \in Registrars, failed \in BOOLEAN, hashed \in BOOLEAN :
       ExecuteRead(g, failed, hashed)
  \/ \E g \in Registrars, failed \in BOOLEAN : ExecuteWrite(g, failed)
  \/ \E body \in Bodies, failed \in BOOLEAN, hashed \in BOOLEAN :
       CreateUser(body, failed, hashed)
  \/ \E e \in Addresses, failed \in BOOLEAN : DeleteUser(e, failed)

SpecReg == InitReg /\ [][NextReg]_vars

\* ------------------------------------------------------------ properties
Range(seq) == { seq[i] : i \in 1..Len(seq) }

\* A goroutine whose lock operation cannot return in this state.
Waiting(p) ==
  \/ pc[p] = "lock" /\ ~CanLock(mu)
  \/ pc[p] = "lockwait" /\ ~CanEnter(mu)
  \/ pc[p] \in {"rlock1", "rlock2"} /\ ~CanRLock(mu)

\* Some goroutine that holds the lock, or is next to get it, can take its
\* next step towards giving it up.
HolderCanStep ==
  \E q \in Procs :
    \/ ENABLED Locked(q)
    \/ ENABLED Install(q)
    \/ ENABLED Unlock(q)
    \/ q \in Validators /\ pc[q] \in {"read1", "read2"}

\* C1: under every interleaving of ValidateToken calls and refreshes, a
\* lookup (a goroutine holding the read lock) sees the cache as the last
\* completed refresh left it, never with only some entries of a fetched key
\* set installed; and whenever a goroutine waits for the lock, a goroutine
\* holding it can go on (no deadlock).
C1_AtomicRefresh ==
  /\ \A v \in Validators : pc[v] \in {"read1", "read2"} => publicKeys = committed
  /\ (\E p \in Procs : Waiting(p)) => HolderCanStep

\* A lookup waits while a refresh has installed the first of its two keys.
C1_Witness ==
  \E v \in Validators : \E p \in Procs \ {v} :
    /\ pc[v] \in {"rlock1", "rlock2"}
    /\ pc[p] = "install" /\ idx[p] = 2 /\ Len(jwks[p]) = 2
    /\ publicKeys # committed

\* C2: a ValidateToken call whose lookup misses makes exactly one
\* refreshPublicKeys call before it returns a failure of the key lookup
\* (never none, never two); after a refresh that returned nil there is one
\* more lookup; and when that refresh installed the key identifier, the
\* identifier is in the cache until the second lookup, which finds it, so
\* the call goes on to verify the signature.
C2_OneRefreshOneRetry ==
  \A v \in Validators :
    /\ refreshes[v] <= 1
    /\ lookups[v] <= 2
    /\ (pc[v] = "done" /\ lookups[v] >= 1 /\ key[v] = NoKey) => refreshes[v] = 1
    /\ (pc[v] = "done" /\ refreshes[v] = 1) =>
          lookups[v] = (IF ret[v].err = None THEN 2 ELSE 1)
    /\ (pc[v] \in {"rlock2", "read2"} /\ tok[v].kid \in ret[v].kids) =>
          tok[v].kid \in DOMAIN publicKeys
    /\ (pc[v] = "done" /\ refreshes[v] = 1 /\ tok[v].kid \in ret[v].kids) =>
          key[v] # NoKey /\ (result[v].ok \/ result[v].at # NoTime
                               \/ result[v].err = "failed to parse token: signature")

\* A call succeeded with the key its own refresh installed.
C2_Witness ==
  \E v \in Validators :
    /\ pc[v] = "done" /\ result[v].ok
    /\ refreshes[v] = 1 /\ lookups[v] = 2 /\ tok[v].kid \in ret[v].kids

\* A step by which a refreshPublicKeys of p returns an error.
RefreshFailedStep(p) == ret'[p] # ret[p] /\ ret'[p].err \notin {None, NoReturn.err}

\* C3: a refreshPublicKeys that returns an error (the fetch failed or the
\* body did not decode) returns before it takes the lock and leaves the
\* cache as it is: every identifier resolves as before.
C3_FailedRefreshKeepsCache ==
  [][\A p \in Procs : RefreshFailedStep(p) =>
        /\ pc[p] = "fetch"
        /\ publicKeys' = publicKeys
        /\ \A k \in DOMAIN publicKeys : k \in DOMAIN publicKeys' /\ publicKeys'[k] = publicKeys[k]]_vars

\* A background refresh has failed, the cache holds a key, and a lookup
\* made after the failure finds the key of its token.
C3_Witness ==
  \E p \in Procs \ Validators : \E v \in Validators :
    /\ pc[p] = "returned" /\ ret[p].err \notin {None, NoReturn.err}
    /\ pc[v] = "read1" /\ tok[v].kid \in DOMAIN publicKeys

\* C4: a refreshPublicKeys whose fetch was answered with status 500 returns
\* an error.
C4_Status500IsError ==
  \A p \in Procs : ret[p].status = 500 => ret[p].err # None

\* C5: a goroutine waiting for the answer of the provider never holds the
\* lock nor has asked for it; and a ValidateToken call about to look up a
\* key identifier the cache holds, while a refresh waits for the provider
\* (which may never answer), gets the read lock and returns, with one
\* lookup and no refresh of its own.
C5_FetchOutsideLock ==
  /\ [](\A p \in Procs : pc[p] = "fetch" => mu.w # p /\ p \notin mu.readers)
  /\ \A v \in Validators :
       (pc[v] = "rlock1" /\ tok[v].kid \in DOMAIN publicKeys /\ \E p \in Procs : pc[p] = "fetch")
         ~> (pc[v] = "done" /\ refreshes[v] = 0 /\ lookups[v] = 1)

\* Both background refreshes wait for the provider, one of them after an
\* earlier refresh installed keys, and a lookup holds the read lock and
\* finds its key.
C5_Witness ==
  \E v \in Validators :
    /\ pc[v] = "read1" /\ tok[v].kid \in DOMAIN publicKeys
    /\ pc["init"] = "fetch" /\ pc["ticker"] = "fetch"

\* C6: a token signed (RSA) by the key the cache holds under its key
\* identifier, inside its validity period when its claims are checked,
\* with the expected issuer and with the client id or "account" among its
\* audiences, is accepted, and the claims returned carry its subject and
\* email.
C6_ValidTokenAccepted ==
  \A v \in Validators :
    ( /\ pc[v] = "done"
      /\ SigningMethod(tok[v].alg) = "SigningMethodRSA"
      /\ tok[v].kid # NoKid
      /\ key[v] # NoKey /\ key[v] = tok[v].signer
      /\ tok[v].iss = serverURL \o "/realms/" \o realm
      /\ (clientID \in Range(tok[v].aud) \/ "account" \in Range(tok[v].aud)) )
    => /\ result[v].at # NoTime
       /\ ( /\ (tok[v].exp = NoTime \/ result[v].at < tok[v].exp)
             /\ (tok[v].nbf = NoTime \/ result[v].at >= tok[v].nbf) )
          => /\ result[v].ok
             /\ result[v].sub = tok[v].sub
             /\ result[v].email = tok[v].email

\* A token whose only accepted audience is "account" was accepted from the
\* cache, with no refresh.
C6_Witness ==
  \E v \in Validators :
    /\ pc[v] = "done" /\ result[v].ok /\ refreshes[v] = 0
    /\ clientID \notin Range(tok[v].aud)
    /\ result[v].sub = "user-2"

\* C7: a token whose algorithm is not of the RSA family is rejected at
\* once: the call makes no lookup in the cache and no refresh, whether the
\* cache holds its key identifier or not.
C7_OtherAlgorithmRejected ==
  \A v \in Validators :
    (pc[v] # "idle" /\ SigningMethod(tok[v].alg) # "SigningMethodRSA")
    => /\ pc[v] = "done"
       /\ ~result[v].ok
       /\ lookups[v] = 0 /\ refreshes[v] = 0 /\ key[v] = NoKey

\* An HMAC token naming a key identifier the cache holds was rejected.
C7_Witness ==
  \E v \in Validators :
    /\ pc[v] = "done" /\ ~result[v].ok
    /\ tok[v].alg = "HS256" /\ tok[v].kid \in DOMAIN publicKeys

\* C8: a token whose issuer is not the string serverURL/realms/realm is
\* rejected, whatever else holds of it.
C8_IssuerExact ==
  \A v \in Validators :
    (pc[v] = "done" /\ tok[v].iss # serverURL \o "/realms/" \o realm) => ~result[v].ok

\* A token with a good signature, period and audience was rejected for its
\* issuer, which differs from the expected one by a final slash.
C8_Witness ==
  \E v \in Validators :
    /\ pc[v] = "done" /\ result[v].err = "invalid issuer"
    /\ tok[v].iss = serverURL \o "/realms/" \o realm \o "/"
    /\ key[v] = tok[v].signer /\ clientID \in Range(tok[v].aud)

\* C9: a token with neither the client id nor "account" among its
\* audiences (none at all included) is rejected; one with either of them
\* is not rejected for its audience.
C9_AudienceChecked ==
  \A v \in Validators :
    pc[v] = "done" =>
      IF clientID \in Range(tok[v].aud) \/ "account" \in Range(tok[v].aud)
      THEN result[v].err # "invalid audience"
      ELSE ~result[v].ok

\* A token with a good signature, period and issuer and no audience was
\* rejected for its audience.
C9_Witness ==
  \E v \in Validators :
    /\ pc[v] = "done" /\ result[v].err = "invalid audience"
    /\ tok[v].aud = << >> /\ key[v] = tok[v].signer

\* C10: a call that succeeds checked the claims at a time before the
\* expiry of the token and not before its not-before time.
C10_TemporalClaims ==
  \A v \in Validators :
    (pc[v] = "done" /\ result[v].ok)
    => /\ (tok[v].exp # NoTime => result[v].at < tok[v].exp)
       /\ (tok[v].nbf # NoTime => result[v].at >= tok[v].nbf)

\* A token with a good signature, issuer and audience was rejected at the
\* very second of its expiry.
C10_Witness ==
  \E v \in Validators :
    /\ pc[v] = "done" /\ ~result[v].ok
    /\ result[v].at = tok[v].exp
    /\ key[v] = tok[v].signer /\ tok[v].iss = expectedIssuer
    /\ clientID \in Range(tok[v].aud)

\* C11: HasRole(claims, role) is true exactly when role is among the realm
\* roles of the claims or among the roles listed under the configured
\* client identifier; a role listed only under another client gives false;
\* and the call changes nothing of the validator or of a request.
C11_HasRole ==
  /\ [](call.fn = "HasRole" /\ call.returned =>
         LET realmRoles == Range(call.claims.RealmAccess.Roles)
             clients == call.claims.ResourceAccess
             ownRoles == IF clientID \in DOMAIN clients
                         THEN Range(clients[clientID].Roles) ELSE {}
             otherRoles == UNION { Range(clients[c].Roles) : c \in DOMAIN clients \ {clientID} }
         IN /\ call.has <=> (call.role \in realmRoles \/ call.role \in ownRoles)
            /\ call.role \in otherRoles \ (realmRoles \cup ownRoles) => ~call.has)
  /\ [][call.fn = "HasRole" =>
          UNCHANGED << publicKeys, mu, pc, tok, key, jwks, status, idx, ret, result,
                       lookups, refreshes, committed, http >>]_vars

\* HasRole has returned for a role that only another client grants.
C11_Witness ==
  /\ call.fn = "HasRole" /\ call.returned /\ ~call.has
  /\ "other-app" \in DOMAIN call.claims.ResourceAccess
  /\ call.role \in Range(call.claims.ResourceAccess["other-app"].Roles)

\* One Authorization header, of the form Bearer, one space, a token.
OneBearerHeader(r) ==
  /\ Len(r.Authorization) = 1
  /\ LET h == r.Authorization[1]
     IN /\ Len(h) >= 3
        /\ h[1] = "Bearer"
        /\ h[2] = Space
        /\ \A i \in 3..Len(h) : h[i] # Space /\ h[i] # ""

\* C12: ExtractBearerToken returns a token only for a request with exactly
\* one Authorization header of the form "Bearer <token>"; for every other
\* request (no header, another scheme, more parts, no token after the
\* scheme, more than one Authorization header) it returns an error and no
\* token.
C12_BearerOnly ==
  call.fn = "ExtractBearerToken" /\ call.returned =>
    IF OneBearerHeader(call.r)
    THEN call.extracted.err = None /\ call.extracted.token # ""
    ELSE call.extracted.err # None /\ call.extracted.token = ""

\* Authenticate answers, or passes on, the request of v in this step.
Responds(v) == http[v].stage # "responded" /\ http'[v].stage = "responded"

Invoked(h) == "next" \in Range(h.calls)

\* C13: Authenticate invokes the downstream handler only after
\* ExtractBearerToken and then ValidateToken have both succeeded. When the
\* extraction fails, ValidateToken is not called, the response is 401 with
\* a JSON body {"success":false,"error":...} and the handler is not
\* invoked; when the validation fails, the response is likewise 401 and the
\* handler is not invoked.
C13_AuthenticateGate ==
  /\ [](\A v \in Validators :
          LET h == http[v] IN
          h.req.route.auth =>
            /\ h.stage = "validate" => ~Invoked(h)
            /\ Invoked(h) =>
                 /\ SubSeq(h.calls, 1, 2) = <<"ExtractBearerToken", "ValidateToken">>
                 /\ ExtractBearerToken(h.req).err = None
            /\ h.stage = "responded" /\ ExtractBearerToken(h.req).err # None =>
                 /\ "ValidateToken" \notin Range(h.calls)
                 /\ pc[v] = "idle" /\ tok[v] = NoToken /\ lookups[v] = 0
                 /\ h.resp.status = 401
                 /\ h.resp.contentType = "application/json"
                 /\ h.resp.body.success = FALSE
                 /\ ~Invoked(h))
  /\ [][\A v \in Validators :
          Responds(v) /\ http[v].stage = "validate" /\ http[v].req.route.auth =>
            /\ pc[v] = "done"
            /\ Invoked(http'[v]) => result[v].ok
            /\ ~result[v].ok =>
                 /\ http'[v].resp.status = 401
                 /\ http'[v].resp.contentType = "application/json"
                 /\ http'[v].resp.body.success = FALSE
                 /\ ~Invoked(http'[v])]_vars

\* A request on a route guarded by Authenticate alone has reached the
\* handler.
C13_Witness ==
  /\ http["v1"].stage = "responded"
  /\ http["v1"].req.route = PlainRoute
  /\ http["v1"].calls = <<"ExtractBearerToken", "ValidateToken", "next">>

\* The roles the role claims a give under the configured client.
Granted(a) ==
  Range(a.RealmAccess.Roles) \cup
  (IF clientID \in DOMAIN a.ResourceAccess
   THEN Range(a.ResourceAccess[clientID].Roles) ELSE {})

\* C14: under RequireRole and RequireAnyRole, a request whose context holds
\* validated claims reaches the handler exactly when the claims give the
\* required role (one of the listed roles) and is otherwise answered 403
\* without the handler; a request without validated claims in its context
\* is answered 401, never 403, and never reaches the handler.
C14_RoleGate ==
  \A v \in Validators :
    LET h == http[v] IN
    h.stage = "responded" /\ h.req.route.guard # "none" =>
      IF h.claims.set
      THEN /\ Invoked(h) <=> Range(h.req.route.roles) \cap Granted(h.claims.access) # {}
           /\ ~Invoked(h) => h.resp.status = 403
      ELSE h.resp.status = 401 /\ ~Invoked(h)

\* RequireRole has refused a validated request that lacks the role.
C14_Witness ==
  /\ http["v1"].stage = "responded"
  /\ http["v1"].req.route.guard = "RequireRole"
  /\ http["v1"].claims.set
  /\ http["v1"].resp.status = 403
  /\ http["v1"].calls = <<"ExtractBearerToken", "ValidateToken", "RequireRole">>

\* C15: the response of Authenticate to a token that ValidateToken rejects
\* does not depend on the check that failed: status and body are the same
\* for every rejected token, and the error of ValidateToken goes only to
\* the log.
C15_UniformRejection ==
  [][\A v \in Validators :
       Responds(v) /\ http[v].stage = "validate" /\ http[v].req.route.auth
       /\ ~result[v].ok =>
         /\ http'[v].resp = [status |-> 401, contentType |-> "application/json",
                             body |-> [success |-> FALSE,
                                       error |-> "Invalid or expired token"]]
         /\ http'[v].log = "Token validation failed: " \o result[v].err]_vars

\* A token rejected for its audience has been answered.
C15_Witness ==
  /\ http["v1"].stage = "responded"
  /\ http["v1"].log = "Token validation failed: invalid audience"
  /\ http["v1"].resp.status = 401

\* The ticker loop is at the timer again after every refresh.
TickerServesTicks == [](pc["ticker"] # "wait" => <>(pc["ticker"] = "wait"))

\* C16: NewKeycloakAuth returns with the cache empty and no fetch finished;
\* the goroutine it starts makes one refresh and ends; and the ticker
\* goroutine starts a refresh at a tick and is back at the timer after it,
\* so that every tick gets its refresh for the life of the process.
C16_BackgroundSchedule ==
  /\ publicKeys = << >> /\ pc["init"] = "start" /\ pc["ticker"] = "wait"
  /\ <>(pc["init"] # "start")
  /\ [][pc["init"] = "done" => pc'["init"] = "done"]_vars
  /\ [][pc["ticker"] = "wait" /\ pc'["ticker"] # "wait" => pc'["ticker"] = "fetch"]_vars
  /\ TickerServesTicks

\* The entries of the key sets the provider sends in a body that decodes.
Advertised ==
  UNION { Range(resp.body.keys) : resp \in { r \in Responses : ~r.neterr /\ r.body.json } }

\* An entry refreshPublicKeys installs, and the key it installs for it.
Installable(e) ==
  e.Kty = "RSA" /\ e.Use = "sig" /\ ~DecodeString(e.N).err /\ ~DecodeString(e.E).err

KeyOf(e) ==
  [N |-> SetBytes(DecodeString(e.N).bytes), E |-> SetBytes(DecodeString(e.E).bytes)]

\* C17: every entry of the cache was installed from an entry of a decoded
\* key set whose type is RSA, whose use is "sig" and whose modulus and
\* exponent decode; an entry of another type or use, or one that does not
\* decode, leaves the cache as it is; and it does not keep the installable
\* entries of the same key set from being installed.
C17_OnlyRSASigInstalled ==
  /\ [](\A k \in DOMAIN publicKeys :
          \E e \in Advertised : Installable(e) /\ e.Kid = k /\ publicKeys[k] = KeyOf(e))
  /\ [](\A p \in Procs :
          pc[p] = "install" =>
            \A i \in 1..(idx[p] - 1) :
              LET e == jwks[p][i] IN
              (Installable(e) /\ \A j \in (i + 1)..(idx[p] - 1) :
                                     ~(Installable(jwks[p][j]) /\ jwks[p][j].Kid = e.Kid))
                => e.Kid \in DOMAIN publicKeys /\ publicKeys[e.Kid] = KeyOf(e))
  /\ [][\A p \in Procs :
          (pc[p] = "install" /\ idx'[p] = idx[p] + 1 /\ ~Installable(jwks[p][idx[p]]))
            => publicKeys' = publicKeys]_vars

\* A refresh has gone through a key set whose first entry does not decode
\* and whose second is not an RSA signing key, and has installed the third.
C17_Witness ==
  \E p \in Procs :
    /\ pc[p] = "install" /\ jwks[p] = KeySet3 /\ idx[p] = 4
    /\ publicKeys = [k \in {"k1"} |-> KeyC]

\* C18: when a refresh that succeeds returns, the cache holds only key
\* identifiers of the key set it fetched: an identifier the provider no
\* longer advertises no longer resolves.
C18_BulkReplace ==
  [][\A p \in Procs :
       (pc[p] = "install" /\ pc'[p] # "install") =>
         DOMAIN publicKeys' \subseteq { jwks[p][i].Kid : i \in 1..Len(jwks[p]) }]_vars

\* C19: the key identifiers a refresh installed are in the cache when it
\* returns and stay in it; and a ValidateToken call that has started and
\* whose key identifier a completed refresh installed finds the key at its
\* first lookup, without a refresh of its own.
C19_ReadAfterWrite ==
  /\ [][DOMAIN committed \subseteq DOMAIN committed']_vars
  /\ [][\A p \in Procs :
          (pc[p] = "install" /\ pc'[p] # "install") =>
            InstalledKids(jwks[p]) \subseteq DOMAIN committed']_vars
  /\ [][\A v \in Validators :
          (pc[v] \in {"rlock1", "read1"} /\ tok[v].kid \in DOMAIN committed) =>
            /\ pc'[v] \in {"rlock1", "read1", "verify"}
            /\ refreshes'[v] = 0
            /\ pc'[v] = "verify" =>
                 lookups'[v] = 1 /\ key'[v] = publicKeys[tok[v].kid] /\ key'[v] # NoKey]_vars

\* A call that started after a refresh installed its key has found it.
C19_Witness ==
  /\ pc["v1"] = "verify" /\ lookups["v1"] = 1 /\ refreshes["v1"] = 0
  /\ tok["v1"].kid \in DOMAIN committed
  /\ key["v1"] = committed[tok["v1"].kid]
  /\ pc["ticker"] = "wait"

\* C20: the fetch of the key set ends within a bounded time, so a
\* ValidateToken call that waits for the answer of the provider in its own
\* refresh returns.
C20_FetchTimesOut ==
  \A v \in Validators : (pc[v] = "fetch") ~> (pc[v] = "done")

\* The refresh of p has fetched a key set with an installable entry for the
\* key that signed the token of v.
KeyServed(p, v) ==
  /\ pc[p] = "lock"
  /\ \E i \in 1..Len(jwks[p]) :
       /\ Installable(jwks[p][i])
       /\ jwks[p][i].Kid = tok[v].kid
       /\ KeyOf(jwks[p][i]) = tok[v].signer

\* C21: a background refresh that fails ends neither the process nor the
\* schedule: the ticker goroutine is never over and, after a refresh of
\* its own that returned (an error or not), is at the timer again; once the
\* provider serves the key set to a refresh, of a tick or on demand, the
\* keys it advertises get installed; and a call whose own refresh was served
\* the key that signed its token goes on to verify the signature with it,
\* so that the token is accepted if its claims are.
C21_RefreshSelfHeals ==
  /\ [](pc["ticker"] \in {"wait", "fetch", "lock", "lockwait", "install", "returned"})
  /\ [][pc["ticker"] = "returned" => pc'["ticker"] \in {"returned", "wait"}]_vars
  /\ (pc["ticker"] = "returned") ~> (pc["ticker"] = "wait")
  /\ \A p \in LiveProcs :
       (pc[p] = "lock" /\ jwks[p] = KeySet2)
         ~> ({"k1", "k2"} \subseteq DOMAIN committed
             /\ committed["k1"] = KeyA /\ committed["k2"] = KeyB)
  /\ \A v \in Validators :
       KeyServed(v, v) ~> (pc[v] = "done" /\ key[v] = tok[v].signer
                        /\ (result[v].ok \/ result[v].at # NoTime))

\* The periodic refresh has failed, the first refresh waits for the
\* provider, and the on-demand refresh of a call has been served the key.
C21_Witness ==
  /\ pc["ticker"] = "returned" /\ ret["ticker"].err # None
  /\ pc["init"] = "fetch"
  /\ KeyServed("v1", "v1")

\* ---- Chain

BeforeParts(ms) == [i \in 1..Len(ms) |-> "before " \o ms[i]]
AfterParts(ms) == [i \in 1..Len(ms) |-> "after " \o ms[Len(ms) + 1 - i]]

\* C22: the handler built by Chain(h, m1, ..., mn) runs the pre-handler
\* parts of m1..mn in that order, then h once, then the post-handler parts
\* of mn..m1; with no middlewares it is h itself.
C22_ChainOrder ==
  (call.fn = "Chain" /\ call.returned) =>
    /\ call.chained = BeforeParts(call.middlewares) \o call.h \o AfterParts(call.middlewares)
    /\ call.middlewares = <<>> => call.chained = call.h

C22_Witness ==
  /\ call.fn = "Chain"
  /\ call.returned
  /\ call.middlewares = <<"m2", "m1", "m3">>
  /\ call.chained = <<"before m2", "before m1", "before m3", "handler",
                      "after m3", "after m1", "after m2">>

\* ---- JWTAuth

\* The tokens of the bounded set that are signed by an HMAC method with
\* the secret and valid at now.
ValidFor(secret, now) ==
  { t \in HMACTokens :
      /\ t.alg \in {"HS256", "HS384", "HS512"}
      /\ t.signer = secret
      /\ t.nbf <= now
      /\ now < t.exp }

\* C24: JWTAuth(secret) calls the next handler only for a request whose
\* Authorization header is "Bearer <token>" with a token signed by an HMAC
\* method with the secret and valid, and then the context holds the user
\* id and the email of the token; every other request is answered 401 and
\* the next handler is not called.
C24_JWTAuthGate ==
  (call.fn = "JWTAuth" /\ call.returned) =>
    LET carried == { t \in ValidFor(call.secret, call.now) :
                       call.r.Authorization # <<>>
                       /\ call.r.Authorization[1] = <<"Bearer", Space, Compact(t)>> }
    IN /\ call.auth.next <=> carried # {}
       /\ call.auth.next =>
            /\ call.auth.status = 0
            /\ \A t \in carried : /\ call.auth.UserID = t.UserID
                                  /\ call.auth.Email = t.Email
       /\ ~call.auth.next => call.auth.status = 401

C24_Witness ==
  /\ call.fn = "JWTAuth"
  /\ call.returned
  /\ call.auth.next
  /\ call.auth.UserID = "user-2"
  /\ call.auth.Email = "b@example.org"
  /\ call.now = 1

\* ---- CORS

\* C25: the response of CORS(allowedOrigins) carries
\* Access-Control-Allow-Origin, equal to the Origin of the request, exactly
\* when the list holds "*" or that origin; otherwise the header is absent.
C25_CORSAllowList ==
  (call.fn = "CORS" /\ call.returned) =>
    LET listed == "*" \in Range(call.allowedOrigins)
                  \/ call.origin \in Range(call.allowedOrigins)
        present == "Access-Control-Allow-Origin" \in DOMAIN call.cors.headers
    IN /\ present <=> listed
       /\ present => call.cors.headers["Access-Control-Allow-Origin"] = call.origin

C25_Witness ==
  /\ call.fn = "CORS"
  /\ call.returned
  /\ call.allowedOrigins = <<"https://a.example", "https://b.example">>
  /\ call.origin = "https://evil.example"
  /\ "Access-Control-Allow-Origin" \notin DOMAIN call.cors.headers
  /\ "Access-Control-Allow-Methods" \in DOMAIN call.cors.headers

C25_WitnessAllowed ==
  /\ call.fn = "CORS"
  /\ call.returned
  /\ call.allowedOrigins = <<"https://a.example", "https://b.example">>
  /\ call.origin = "https://b.example"
  /\ call.cors.headers["Access-Control-Allow-Origin"] = "https://b.example"

\* ---- getPaginationParams

NumeralOf(s) == CHOOSE n \in Numerals : n.s = s

\* C26: getPaginationParams returns Page >= 1, PerPage in 1..100 and Order
\* "asc" or "desc"; page and per_page are the integers given when they are
\* in range and 1 and 20 otherwise, order is the one given when it is "asc"
\* or "desc" and "desc" otherwise, sort_by is the one given or "createdAt".
C26_Pagination ==
  (call.fn = "getPaginationParams" /\ call.returned) =>
    LET p == NumeralOf(call.query.page)
        pp == NumeralOf(call.query.per_page)
        out == call.params
    IN /\ out.Page >= 1
       /\ out.PerPage >= 1 /\ out.PerPage <= 100
       /\ out.Order \in {"asc", "desc"}
       /\ out.Page = IF p.ok /\ p.val > 0 THEN p.val ELSE 1
       /\ out.PerPage = IF pp.ok /\ pp.val > 0 /\ pp.val <= 100 THEN pp.val ELSE 20
       /\ out.Order = IF call.query.order \in {"asc", "desc"} THEN call.query.order
                      ELSE "desc"
       /\ out.SortBy = IF call.query.sort_by # "" THEN call.query.sort_by
                       ELSE "createdAt"

C26_Witness ==
  /\ call.fn = "getPaginationParams"
  /\ call.returned
  /\ call.query.per_page = <<"1", "0", "1">>
  /\ call.query.page = <<"0", "0", "7">>
  /\ call.query.order = "ASC"
  /\ call.params = [Page |-> 7, PerPage |-> 20, SortBy |-> "createdAt", Order |-> "desc"]

\* ---- RateLimit

\* The requests from client address a that were passed on.
PassedFrom(a) == Cardinality({ c \in Conns : srv[c].consumed /\ srv[c].r.ip = a })

\* The visitors hold between 0 and Limit tokens.
TokensInRange == \A v \in 1..Len(heap) : heap[v].tokens \in 0..Limit

\* A request allow refused is answered 429 with Retry-After and the body,
\* and no inner handler ran.
RefusedAnswered ==
  \A c \in Conns :
    (srv[c].pc = "done" /\ srv[c].v # 0 /\ ~srv[c].consumed) =>
      /\ srv[c].status = 429
      /\ srv[c].headers["Retry-After"] = "60"
      /\ srv[c].body = "{\"success\":false,\"error\":\"Rate limit exceeded. Please try again later.\"}"
      /\ "router" \notin Range(srv[c].trace)

\* C23: for each key, at most Limit requests are passed on in a window of
\* the key, whatever the interleaving of the requests and of cleanup; the
\* token count stays within 0..Limit and a refused request is answered 429.
C23_WindowBudget ==
  /\ \A k \in ClientKeys : passed[k] <= Limit
  /\ TokensInRange
  /\ RefusedAnswered

\* C28: the requests passed on from one client address within the first
\* window are at most Limit, whatever their port and X-Forwarded-For.
C28_PerIPBudget ==
  Instants[clock] < Window => \A a \in IPs : PassedFrom(a) <= Limit

\* ---- the server stack

Ran(c, part) == part \in Range(srv[c].trace)

\* C29: a request that reached the router took a token, has the security
\* headers on its response and a request id in its context, and ran the
\* middlewares in the order Logger, CORS, RateLimit, Recovery,
\* SecurityHeaders, RequestID; a request answered 429 ran nothing inside
\* RateLimit; a preflight is answered 200 by CORS, runs nothing inside
\* CORS, asks for no visitor and takes no token.
C29_ServerStack ==
  \A c \in Conns :
    srv[c].pc = "done" =>
      /\ Ran(c, "router") =>
           /\ srv[c].consumed
           /\ srv[c].requestID # ""
           /\ srv[c].r.requestID # "" => srv[c].requestID = srv[c].r.requestID
           /\ { "X-Content-Type-Options", "X-Frame-Options", "X-XSS-Protection",
                "Referrer-Policy", "Content-Security-Policy" } \subseteq DOMAIN srv[c].headers
           /\ srv[c].trace =
                << "before Logger", "before CORS", "before RateLimit", "before Recovery",
                   "before SecurityHeaders", "before RequestID", "router" >> \o
                (IF srv[c].r.panics THEN <<>>
                 ELSE << "after RequestID", "after SecurityHeaders" >>) \o
                << "after Recovery", "after RateLimit", "after CORS", "after Logger" >>
           /\ srv[c].status = IF srv[c].r.panics THEN 500 ELSE 200
      /\ srv[c].status = 429 =>
           /\ ~Ran(c, "before Recovery")
           /\ ~Ran(c, "before SecurityHeaders")
           /\ ~Ran(c, "before RequestID")
           /\ ~Ran(c, "router")
           /\ ~srv[c].consumed
      /\ srv[c].r.method = "OPTIONS" =>
           /\ srv[c].status = 200
           /\ srv[c].trace = <<"before Logger", "before CORS", "after CORS", "after Logger">>
           /\ srv[c].v = 0
           /\ ~srv[c].consumed

C29_Witness ==
  /\ srv["c1"].pc = "done" /\ Ran("c1", "router") /\ srv["c1"].consumed
  /\ srv["c2"].pc = "done" /\ srv["c2"].status = 429
  /\ srv["c3"].pc = "done" /\ srv["c3"].r.method = "OPTIONS" /\ srv["c3"].status = 200

\* ---- Register

Registered(g) == reg[g].pc = "done"

\* A Register call whose existence check reported the email answers 409
\* with success = false and makes no write.
ConflictAnswered ==
  \A g \in Registrars :
    (Registered(g) /\ reg[g].exists) =>
      /\ reg[g].status = 409
      /\ ~reg[g].success
      /\ reg[g].ops = <<"read">>

\* C27: a Register call whose existence check reported the email answers
\* 409 with success = false and makes no write, and a call whose body is
\* not valid JSON answers 400 without any database operation.
C27_RegisterRejects ==
  /\ ConflictAnswered
  /\ \A g \in Registrars :
       (Registered(g) /\ ~ValidJSON(reg[g].body)) =>
         /\ reg[g].status = 400
         /\ reg[g].ops = <<>>

\* The Register calls answered 201 for email e.
Created(e) == { g \in Registrars : Registered(g) /\ reg[g].Email = e /\ reg[g].status = 201 }

\* C30: whatever the interleaving of the Register calls, the database
\* holds at most one user for an email and, as long as DeleteUser has
\* deleted no user of that email, at most one call for it is answered
\* 201; a write after the first fails and is answered an error.
C30_OneUserPerEmail ==
  \A e \in Addresses :
    /\ users[e] <= 1
    /\ e \notin removed => Cardinality(Created(e)) <= 1
    /\ \A g \in Registrars :
         (Registered(g) /\ reg[g].Email = e /\ reg[g].ops = <<"read", "write">>
          /\ g \notin Created(e)) => (reg[g].status = 500 /\ ~reg[g].success)

\* Two calls for one email both passed the check; one created the user,
\* the other's write failed.
C30_Witness ==
  /\ reg["g1"].Email = "a@example.org" /\ reg["g1"].status = 201
  /\ reg["g2"].Email = "a@example.org" /\ reg["g2"].status = 500
  /\ reg["g2"].code = "DATABASE_ERROR"
  /\ ~reg["g2"].exists
  /\ users["a@example.org"] = 1
  /\ "a@example.org" \notin removed

====
